---- MODULE Spec2Model ----
(***************************************************************************)
(* A model of the adapter / modifier-registry / routing-context runtime of *)
(* mttl.                                                                   *)
(*                                                                         *)
(*   adapters.py        LoRA and SkilledLoRA (construction, forward)       *)
(*   modify_model.py    MODIFIERS registry and modify_transformer          *)
(*   encdec.py          EncoderDecoder steps around the routing context    *)
(*   expert_model.py    MultiExpertModel expert loading and generation     *)
(*   expert_library     HFExpertLibrary and retry, as the specification    *)
(*                      and tests/test_expert_library.py describe them     *)
(*   selectors          set_selector / get_merged_expert, as the           *)
(*                      specification and tests/test_expert_model.py       *)
(*                      describe them                                      *)
(*   callbacks.py       RougeLCallback and ValLossCheckpointCallback       *)
(*   parallel_evolution.py   find_ai / increase_ai                         *)
(*   finetune_experts.py     train_module's val_check_interval             *)
(*                                                                         *)
(* Tensors are flat row-major sequences of integers (the storage order of  *)
(* a contiguous torch tensor); shapes are carried by the configuration.    *)
(* Results that involve alpha / rank or the warm-up gate are exact         *)
(* rationals <<numerator, denominator>> in lowest terms.  Floating-point   *)
(* rounding and dtype casts are outside the model.                         *)
(***************************************************************************)
EXTENDS Integers, Sequences, FiniteSets, TLC

VARIABLES
    \* ---- adapters.py: one LoRA / SkilledLoRA object and its wrapped layer
    kind,            \* class of the adapter: "LoRA" or "SkilledLoRA"
    config,          \* config.lora_rank, lora_alpha, lora_warmup, ...
    layer,           \* the wrapped nn.Linear: weight (out x in), bias (out)
    lora_a,          \* self.lora_a, flat
    lora_b,          \* self.lora_b, flat
    training,        \* nn.Module.training
    training_steps,  \* self.training_steps
    fwd,             \* the last forward call: its arguments and its result
    \* ---- modify_model.py: the registries and one transformer
    MODIFIERS,              \* name -> class
    CONFIGS_TO_MODIFIERS,   \* config class -> name
    transformer,            \* the model handed to modify_transformer
    call,                   \* the last registry call: arguments and outcome
    task_id_container,      \* transformer.task_id_container
    \* ---- encdec.py / expert_model.py: a LightningModule running steps
    module,                 \* the EncoderDecoder or MultiExpertModel object
    pc,                     \* position of the running handler
    run,                    \* the running handler's locals
    \* ---- expert_library: one HFExpertLibrary and the repository behind it
    hub,                    \* the persisted repository: entries and readme
    library,                \* the open library: data, _sliced, its filter
    libcall,                \* the last library call: arguments and outcome
    \* ---- retry: one call of a function wrapped by @retry
    attempt,
    \* ---- MultiExpertModel: its experts and selectors
    hparams,                \* self.hparams.model
    containers,             \* expert name -> how it sits in self.model
    selectors,              \* self.selectors: modifier -> layer -> selector
    excall,                 \* the last call on the model and its outcome
    \* ---- EncoderDecoder.inference_epoch_end on every rank of a run
    dist,                   \* the process group: world size, all_gather state
    ranks,                  \* per rank: position, outputs, metrics, results
    scores_file,            \* <split>_scores.jsonl: the lines appended
    \* ---- adapters.py: one constructor call
    built,                  \* the last Adapter(config, layer) call
    \* ---- encdec.py: the lists inference_epoch_end accumulates
    dedup,                  \* the batch outputs and what is made of them
    \* ---- encdec.py: save_model
    saver,                  \* global_step, _last_global_step_saved, files
    \* ---- callbacks.py: the two checkpointing callbacks
    valcb,                  \* a ValLossCheckpointCallback and its files
    rougecb,                \* a RougeLCallback and its files
    \* ---- parallel_evolution.py, finetune_experts.py: pure helpers
    naming,                 \* a repository id through increase_ai
    interval                \* train_module's val_check_interval

adapterVars == <<kind, config, layer, lora_a, lora_b, training, training_steps, fwd>>
registryVars == <<MODIFIERS, CONFIGS_TO_MODIFIERS, transformer, call>>
routingVars == <<module, pc, run>>
libraryVars == <<hub, library, libcall>>
expertVars == <<hparams, containers, selectors, excall>>
evalVars == <<dist, ranks, scores_file>>
restVars == <<dedup, saver, valcb, rougecb, naming, interval>>
laterVars == <<libraryVars, attempt, expertVars, evalVars, built, restVars>>
vars == <<adapterVars, registryVars, task_id_container, routingVars, laterVars>>

None == "None"

-----------------------------------------------------------------------------
(* Bounds of the model.                                                    *)

MaxRank == 2        \* config.lora_rank ranges over 1..MaxRank
MaxBatch == 2       \* batch sizes 1..MaxBatch
MaxSlope == 1       \* tensors are i |-> a * i - 1 with a in 0..MaxSlope
MaxSteps == 1       \* training-mode forwards explored with full tensors
WarmupHorizon == 10002  \* training-mode forwards explored by SpecWarmup

NSkills == 2        \* config.n_skills of a SkilledLoRA
MaxSplits == 2      \* config.n_splits ranges over the divisors up to MaxSplits

(* The wrapped layer: layer.in_features, layer.out_features.               *)
InFeatures == 2
OutFeatures == 2

WARMUP_STEPS == 10000   \* min(self.training_steps / 10_000, 1)

-----------------------------------------------------------------------------
(* Exact rationals.                                                        *)

Abs(n) == IF n < 0 THEN -n ELSE n

RECURSIVE GCD(_, _)
GCD(a, b) == IF b = 0 THEN a ELSE GCD(b, a % b)

Rat(n, d) == LET g == GCD(Abs(n), d) IN <<n \div g, d \div g>>
RInt(n) == <<n, 1>>
RAdd(p, q) == Rat(p[1] * q[2] + q[1] * p[2], p[2] * q[2])
RMul(p, q) == Rat(p[1] * q[1], p[2] * q[2])
RLeq(p, q) == p[1] * q[2] <= q[1] * p[2]
RMin(p, q) == IF RLeq(p, q) THEN p ELSE q

(* Flat row-major tensors.                                                 *)

RECURSIVE SumTo(_, _)
SumTo(f, n) == IF n = 0 THEN 0 ELSE f[n] + SumTo(f, n - 1)

At2(t, n2, i, j) == t[(i - 1) * n2 + j]
At3(t, n2, n3, i, j, k) == t[((i - 1) * n2 + (j - 1)) * n3 + k]
At4(t, n2, n3, n4, i, j, k, l) == t[(((i - 1) * n2 + (j - 1)) * n3 + (k - 1)) * n4 + l]

\* the k-th coordinate (1-based) of flat position p in a tensor whose
\* trailing block (the product of the later dimensions) has size blk and
\* whose k-th dimension has size n
Coord(p, n, blk) == (((p - 1) \div blk) % n) + 1

Tensors(n) == { [i \in 1..n |-> a * i - 1] : a \in 0..MaxSlope }
Zeros(n) == [i \in 1..n |-> 0]

\* torch.matmul / bmm of x (m x k) and y (k x n)
matmul(x, m, k, y, n) ==
    [p \in 1..(m * n) |->
        LET i == Coord(p, m, n)
            j == Coord(p, n, 1)
        IN SumTo([c \in 1..k |-> At2(x, k, i, c) * At2(y, n, c, j)], k)]

-----------------------------------------------------------------------------
(* adapters.py                                                             *)

Kinds == {"LoRA", "SkilledLoRA"}

SplitsOf(k) ==
    IF k = "LoRA" THEN {1}
    ELSE {q \in 1..MaxSplits : InFeatures % q = 0 /\ OutFeatures % q = 0}

Configs(k) ==
    [lora_rank : 1..MaxRank,
     lora_alpha : {1, 16},
     lora_warmup : BOOLEAN,
     lora_init_b_random : BOOLEAN,
     n_splits : SplitsOf(k),
     n_skills : IF k = "LoRA" THEN {1} ELSE {NSkills}]

Layers == { [in_features |-> InFeatures, out_features |-> OutFeatures,
             weight |-> [i \in 1..(OutFeatures * InFeatures) |-> i - 2],
             bias |-> [o \in 1..OutFeatures |-> o]] }

\* LoRA.create_for_layer / SkilledLoRA.create_for_layer: the number of
\* entries of lora_a and of lora_b
SizeA(k, c, l) ==
    IF k = "LoRA" THEN l.in_features * c.lora_rank
    ELSE c.n_splits * c.n_skills * (l.in_features \div c.n_splits) * c.lora_rank

SizeB(k, c, l) ==
    IF k = "LoRA" THEN c.lora_rank * l.out_features
    ELSE c.n_splits * c.n_skills * c.lora_rank * (l.out_features \div c.n_splits)

\* LoRA.reset_parameters: the values lora_b may take after construction
reset_parameters_b_always_random(c, n) == Tensors(n)

reset_parameters_b(c, n) ==
    IF c.lora_warmup \/ c.lora_init_b_random THEN Tensors(n) ELSE {Zeros(n)}

\* LoRA.reset_parameters: lora_a.uniform_(-std, std)
reset_parameters_a(c, n) == Tensors(n)

\* self.scaling = self.alpha / self.rank
scaling_inverted == Rat(config.lora_rank, config.lora_alpha)

scaling == Rat(config.lora_alpha, config.lora_rank)

\* if self.training: self.training_steps += 1
steps_after_always_counted == training_steps + 1

steps_after == IF training THEN training_steps + 1 ELSE training_steps

\* warmup = min(self.training_steps / 10_000, 1)
warmup_unclipped(steps) == Rat(steps, WARMUP_STEPS)

warmup(steps) == RMin(Rat(steps, WARMUP_STEPS), RInt(1))

\* LoRA.foward_layer: self.layer(input) for input of shape (bs, in)
foward_layer(input, bs) ==
    [p \in 1..(bs * layer.out_features) |->
        LET b == Coord(p, bs, layer.out_features)
            o == Coord(p, layer.out_features, 1)
        IN SumTo([i \in 1..layer.in_features |->
                     At2(input, layer.in_features, b, i)
                     * At2(layer.weight, layer.in_features, o, i)],
                 layer.in_features)
           + layer.bias[o]]

\* the tail shared by both forward_linear_ methods: scale, gate, add
gated_sum(base, xab, steps) ==
    [p \in DOMAIN base |->
        LET adapter_out == RMul(RInt(xab[p]), scaling)
            out == IF config.lora_warmup
                   THEN RMul(adapter_out, warmup(steps))
                   ELSE adapter_out
        IN RAdd(RInt(base[p]), out)]

\* LoRA.forward_linear_ on an input of shape (bs, in)
LoRA_forward_out(input, bs, steps) ==
    LET xa == matmul(input, bs, layer.in_features, lora_a, config.lora_rank)
        xab == matmul(xa, bs, config.lora_rank, lora_b, layer.out_features)
    IN gated_sum(foward_layer(input, bs), xab, steps)

\* torch.bmm of x (bs x m x k) and y (bs x k x n)
bmm(x, bs, m, k, y, n) ==
    [p \in 1..(bs * m * n) |->
        LET b == Coord(p, bs, m * n)
            i == Coord(p, m, n)
            j == Coord(p, n, 1)
        IN SumTo([c \in 1..k |-> At3(x, m, k, b, i, c) * At3(y, k, n, b, c, j)], k)]

\* t.transpose(1, 2) of a tensor of shape (n1, n2, n3, n4), made contiguous:
\* the result has shape (n1, n3, n2, n4)
transpose12(t, n1, n2, n3, n4) ==
    [p \in 1..(n1 * n2 * n3 * n4) |->
        At4(t, n2, n3, n4,
            Coord(p, n1, n3 * n2 * n4), Coord(p, n2, n4),
            Coord(p, n3, n2 * n4), Coord(p, n4, 1))]

\* self.lora_a[:, weights.long(), :, :] on a parameter of shape
\* (q, s, d1, d2): the result has shape (q, bs, d1, d2)
index_skills(param, q, s, d1, d2, w, bs) ==
    [p \in 1..(q * bs * d1 * d2) |->
        At4(param, s, d1, d2,
            Coord(p, q, bs * d1 * d2), w[Coord(p, bs, d1 * d2)] + 1,
            Coord(p, d1, d2), Coord(p, d2, 1))]

\* torch.einsum("bqs,qsdr->bqdr", (weights, param)): shape (bs, q, d1, d2)
einsum_skills(param, q, s, d1, d2, w, bs) ==
    [p \in 1..(bs * q * d1 * d2) |->
        LET b == Coord(p, bs, q * d1 * d2)
            qi == Coord(p, q, d1 * d2)
            i == Coord(p, d1, d2)
            j == Coord(p, d2, 1)
        IN SumTo([k \in 1..s |-> At3(w, q, s, b, qi, k)
                                  * At4(param, s, d1, d2, qi, k, i, j)], s)]

\* SkilledLoRA.forward_linear_ on an input of shape (bs, 1, in): the factor
\* A after A.reshape(bs, in_features, rank)
Skilled_A(weights, bs) ==
    LET q == config.n_splits
        s == config.n_skills
        d == layer.in_features \div q
        r == config.lora_rank
    IN IF weights.ndim = 1
       THEN index_skills(lora_a, q, s, d, r, weights.w, bs)
       ELSE einsum_skills(lora_a, q, s, d, r, weights.w, bs)

\* the factor B after B.transpose(1, 2).reshape(bs, rank, out_features)
Skilled_B(weights, bs) ==
    LET q == config.n_splits
        s == config.n_skills
        d == layer.out_features \div q
        r == config.lora_rank
    IN IF weights.ndim = 1
       THEN transpose12(index_skills(lora_b, q, s, r, d, weights.w, bs), q, bs, r, d)
       ELSE transpose12(einsum_skills(lora_b, q, s, r, d, weights.w, bs), bs, q, r, d)

SkilledLoRA_forward_out(input, bs, weights, steps) ==
    LET xa == bmm(input, bs, 1, layer.in_features, Skilled_A(weights, bs), config.lora_rank)
        xab == bmm(xa, bs, 1, config.lora_rank, Skilled_B(weights, bs), layer.out_features)
    IN gated_sum(foward_layer(input, bs), xab, steps)

\* routing weights handed to SkilledLoRA.forward: a 1-D vector of skill
\* indices, or a (bs, n_splits, n_skills) tensor whose rows are one-hot or
\* all-ones and are the same for every split of an example
NoWeights == [ndim |-> 0, w |-> <<>>]

IndexWeights(bs, s) == { [ndim |-> 1, w |-> w] : w \in [1..bs -> 0..(s - 1)] }

RowOf(choice, s) == [k \in 1..s |-> IF choice = s \/ choice = k - 1 THEN 1 ELSE 0]

DistWeights(bs, q, s) ==
    { [ndim |-> 3,
       w |-> [p \in 1..(bs * q * s) |->
                 RowOf(c[Coord(p, bs, q * s)], s)[Coord(p, s, 1)]]] :
      c \in [1..bs -> 0..s] }

WeightsFor(k, c, bs) ==
    IF k = "LoRA" THEN {NoWeights}
    ELSE IndexWeights(bs, c.n_skills) \cup DistWeights(bs, c.n_splits, c.n_skills)

NoCall == [bs |-> 0]

\* LoRA.__init__ / SkilledLoRA.__init__ with create_for_layer and
\* reset_parameters, over the given configurations
InitAdapterOver(ks, cs) ==
    /\ kind \in ks
    /\ config \in cs[kind]
    /\ layer \in Layers
    /\ lora_a \in reset_parameters_a(config, SizeA(kind, config, layer))
    /\ lora_b \in reset_parameters_b(config, SizeB(kind, config, layer))
    /\ training = TRUE
    /\ training_steps = 0
    /\ fwd = NoCall

\* nn.Module.train() / nn.Module.eval() on the adapter
SetTraining(mode) ==
    /\ training # mode
    /\ training' = mode
    /\ UNCHANGED <<kind, config, layer, lora_a, lora_b, training_steps, fwd>>

\* Adapter.forward -> self.forward_fn(*args): one call, of either class
Forward(input, bs, weights, horizon) ==
    /\ training => training_steps < horizon
    /\ training_steps' = steps_after
    /\ fwd' = [bs |-> bs,
               input |-> input,
               weights |-> weights,
               training |-> training,
               train_calls |-> (IF fwd.bs = 0 THEN 0 ELSE fwd.train_calls)
                               + (IF training THEN 1 ELSE 0),
               gate |-> warmup(training_steps'),
               out |-> IF kind = "LoRA"
                       THEN LoRA_forward_out(input, bs, training_steps')
                       ELSE SkilledLoRA_forward_out(input, bs, weights, training_steps')]
    /\ UNCHANGED <<kind, config, layer, lora_a, lora_b, training>>

ForwardAny(horizon) ==
    \E bs \in 1..MaxBatch :
        \E input \in Tensors(bs * layer.in_features) :
            \E weights \in WeightsFor(kind, config, bs) :
                Forward(input, bs, weights, horizon)

\* one fixed input and routing, for the long runs of the step counter
ForwardOne(horizon) ==
    Forward([i \in 1..layer.in_features |-> 1], 1,
            IF kind = "LoRA" THEN NoWeights ELSE [ndim |-> 1, w |-> <<0>>],
            horizon)

WarmupConfigs(k) ==
    { c \in Configs(k) : c.lora_warmup /\ c.lora_rank = 1 /\ c.lora_alpha = 1
                         /\ ~c.lora_init_b_random /\ c.n_splits = 1 }

-----------------------------------------------------------------------------
(* modify_model.py                                                         *)

\* Python dicts are functions with a finite domain
EmptyDict == [k \in {} |-> None]
Put(d, k, v) == [x \in DOMAIN d \cup {k} |-> IF x = k THEN v ELSE d[x]]
Get(d, k, default) == IF k \in DOMAIN d THEN d[k] ELSE default

\* Python truthiness of a name: None and "" are falsy; a or b
Truthy(v) == v # None /\ v # ""
Or(a, b) == IF Truthy(a) THEN a ELSE b

Names == {"lora", "poly"}
Classes == {"LoRAModifier", "OtherModifier"}
RegisteredConfigTypes == {"LoRAConfig"}
ConfigTypes == RegisteredConfigTypes \cup {"Namespace"}
Paths == {"q_proj", "fc1"}
Patterns == {{"q_proj"}, {"q_proj", "fc1"}}

NoAttribute == "no attribute"

\* the configuration objects handed to modify_transformer: their type, their
\* model_modifier attribute (possibly missing) and the layers their
\* modify_layers pattern matches
ModifierConfigs ==
    [type : ConfigTypes,
     model_modifier : {NoAttribute, None, "lora"},
     modify_layers : Patterns]

HasAttr(cfg) == cfg.model_modifier # NoAttribute
GetAttr(cfg, default) == IF HasAttr(cfg) THEN cfg.model_modifier ELSE default

NoRegistryCall == [op |-> "none"]

\* the state of the module after its first two statements
InitRegistries ==
    /\ MODIFIERS = EmptyDict
    /\ CONFIGS_TO_MODIFIERS = EmptyDict
    /\ call = NoRegistryCall

\* a pretrained model before modification: every layer is plain, and each
\* parameter has some requires_grad flag; it has no task_id_container
PlainTransformers ==
    [Paths -> [requires_grad : BOOLEAN, wrapped : {FALSE}, adapter_requires_grad : {FALSE}]]

\* a RoutingInfo built from a batch, and the two other values of
\* task_id_container["routing_infos"]: the key missing, and None
RoutingInfo(batch, task) == [batch |-> batch, task |-> task]
Unset == RoutingInfo("unset", "unset")
NoneInfo == RoutingInfo(None, None)

NoContainer == [present |-> FALSE, routing_infos |-> Unset]
EmptyContainer == [present |-> TRUE, routing_infos |-> Unset]

\* register_modifier._thunk: if name in MODIFIERS: raise ValueError
register_never_raises(name) == FALSE

register_raises(name) == name \in DOMAIN MODIFIERS

\* register_modifier(name, config_cls)(klass)
register_modifier(name, config_cls, klass) ==
    /\ IF register_raises(name)
       THEN /\ call' = [op |-> "register_modifier", name |-> name, klass |-> klass,
                        config_cls |-> config_cls, raised |-> "ValueError"]
            /\ UNCHANGED <<MODIFIERS, CONFIGS_TO_MODIFIERS>>
       ELSE /\ MODIFIERS' = Put(MODIFIERS, name, klass)
            /\ CONFIGS_TO_MODIFIERS' =
                   IF config_cls # None
                   THEN Put(CONFIGS_TO_MODIFIERS, config_cls, name)
                   ELSE CONFIGS_TO_MODIFIERS
            /\ call' = [op |-> "register_modifier", name |-> name, klass |-> klass,
                        config_cls |-> config_cls, raised |-> None]
    /\ UNCHANGED <<transformer, task_id_container>>

\* get_modifier_type(config, model_modifier)
get_modifier_type_without_attribute(cfg, model_modifier) ==
    Or(model_modifier, Get(CONFIGS_TO_MODIFIERS, cfg.type, None))

get_modifier_type(cfg, model_modifier) ==
    Or(Or(model_modifier, GetAttr(cfg, None)),
       Get(CONFIGS_TO_MODIFIERS, cfg.type, None))

\* modify_transformer, lines 42-49: whether the loop over
\* transformer.parameters() clears requires_grad
freezes(cfg) == HasAttr(cfg) /\ Truthy(cfg.model_modifier)

\* for param in transformer.parameters(): param.requires_grad = flag
set_requires_grad_matched_only(t, flag, cfg) ==
    [l \in DOMAIN t |->
        IF l \in cfg.modify_layers
        THEN [t[l] EXCEPT !.requires_grad = flag,
                          !.adapter_requires_grad = t[l].wrapped /\ flag]
        ELSE t[l]]

set_requires_grad(t, flag, cfg) ==
    [l \in DOMAIN t |->
        [t[l] EXCEPT !.requires_grad = flag,
                     !.adapter_requires_grad = t[l].wrapped /\ flag]]

\* MODIFIERS[model_modifier].modify_transformer(transformer, config): every
\* layer whose path matches the pattern is wrapped with a new, trainable
\* adapter; the other layers are left as they are
modifier_modify_transformer(t, cfg) ==
    [l \in DOMAIN t |->
        IF l \in cfg.modify_layers
        THEN [t[l] EXCEPT !.wrapped = TRUE, !.adapter_requires_grad = TRUE]
        ELSE t[l]]

\* modify_transformer, lines 53-64: what the call does once the name is known
outcome_unknown_name_returns(name) ==
    IF name = None
    THEN [warned |-> TRUE, factory |-> None, raised |-> None, returned |-> "transformer"]
    ELSE IF Truthy(name) /\ name \in DOMAIN MODIFIERS
    THEN [warned |-> FALSE, factory |-> MODIFIERS[name], raised |-> None,
          returned |-> "transformer"]
    ELSE [warned |-> FALSE, factory |-> None, raised |-> None, returned |-> "transformer"]

outcome(name) ==
    IF name = None
    THEN [warned |-> TRUE, factory |-> None, raised |-> None, returned |-> "transformer"]
    ELSE IF ~Truthy(name)
    THEN [warned |-> FALSE, factory |-> None, raised |-> None, returned |-> "transformer"]
    ELSE IF name \in DOMAIN MODIFIERS
    THEN [warned |-> FALSE, factory |-> MODIFIERS[name], raised |-> None,
          returned |-> "transformer"]
    ELSE [warned |-> FALSE, factory |-> None, raised |-> "ValueError", returned |-> None]

\* modify_transformer(transformer, modifier_config, model_modifier)
modify_transformer(cfg, model_modifier) ==
    LET flagged == set_requires_grad(transformer, ~freezes(cfg), cfg)
        name == get_modifier_type(cfg, model_modifier)
        res == outcome(name)
    IN /\ task_id_container' = EmptyContainer
       /\ transformer' = IF res.factory # None
                         THEN modifier_modify_transformer(flagged, cfg)
                         ELSE flagged
       /\ call' = [op |-> "modify_transformer", config |-> cfg,
                   model_modifier |-> model_modifier, name |-> name,
                   warned |-> res.warned, factory |-> res.factory,
                   raised |-> res.raised, returned |-> res.returned]
       /\ UNCHANGED <<MODIFIERS, CONFIGS_TO_MODIFIERS>>

-----------------------------------------------------------------------------
(* encdec.py and expert_model.py: the routing context around forward       *)
(* passes.                                                                 *)

MaxPlugins == 2     \* at most this many loss plugins on an EncoderDecoder

Batches == {"b1", "b2"}
ExpertNames == {"a", "b"}
ExpertLists == {<<>>, <<"a">>, <<"a", "b">>}
Routings == {"auto", "first", "random", "subject"}

\* the task named by the batch itself (batch["task_names"])
TaskOf(batch) == "task_" \o batch

EncoderDecoders ==
    [cls : {"EncoderDecoder"}, loss_plugins : 0..MaxPlugins, smear : BOOLEAN,
     experts : {<<>>}, routing : {"subject"}]

MultiExpertModels ==
    [cls : {"MultiExpertModel"}, loss_plugins : {0}, smear : {FALSE},
     experts : ExpertLists, routing : Routings]

NoForward == [batch |-> None, ctx |-> Unset, by |-> None]

NoRun == [handler |-> "none", batch |-> None, i |-> 0, task |-> None,
          plugins_left |-> 0, forward |-> NoForward, raised |-> None]

Begin(handler, batch) == [NoRun EXCEPT !.handler = handler, !.batch = batch]

\* self.model.task_id_container["routing_infos"] = value
SetRoutingInfos(value) ==
    task_id_container' = [task_id_container EXCEPT !.routing_infos = value]

\* a pass through self.model: the layers read the routing context
ModelForward(by) ==
    run' = [run EXCEPT !.forward = [batch |-> run.batch,
                                    ctx |-> task_id_container.routing_infos,
                                    by |-> by]]

\* the handler raises: nothing after the raising statement runs
Raise(error) ==
    /\ run' = [run EXCEPT !.raised = error]
    /\ pc' = "idle"

\* EncoderDecoder.training_step, lines 96-98
training_step(batch) ==
    /\ pc = "idle" /\ module.cls = "EncoderDecoder"
    /\ SetRoutingInfos(RoutingInfo(batch, TaskOf(batch)))
    /\ run' = [Begin("training_step", batch) EXCEPT !.plugins_left = module.loss_plugins]
    /\ pc' = "ts_forward"
    /\ UNCHANGED module

\* EncoderDecoder.training_step, lines 100-242: the forward pass and the loss
ts_forward ==
    /\ pc = "ts_forward"
    /\ ModelForward("model")
    /\ pc' = "ts_reset"
    /\ UNCHANGED <<module, task_id_container>>

\* EncoderDecoder.training_step, line 245
ts_reset ==
    /\ pc = "ts_reset"
    /\ SetRoutingInfos(NoneInfo)
    /\ pc' = IF run.plugins_left > 0 THEN "ts_plugin" ELSE "idle"
    /\ UNCHANGED <<module, run>>

\* EncoderDecoder.training_step, lines 253-258: one plugin.compute_loss(self.model,
\* batch); under a 'smear' modifier the encoder hook (lines 72-74) writes
\* routing_infos.encoder_output and raises when routing_infos is None
ts_plugin ==
    /\ pc = "ts_plugin"
    /\ IF module.smear /\ task_id_container.routing_infos = NoneInfo
       THEN Raise("AttributeError")
       ELSE /\ run' = [run EXCEPT !.forward = [batch |-> run.batch,
                                               ctx |-> task_id_container.routing_infos,
                                               by |-> "plugin"],
                                  !.plugins_left = @ - 1]
            /\ pc' = IF run.plugins_left > 1 THEN "ts_plugin" ELSE "idle"
    /\ UNCHANGED <<module, task_id_container>>

\* EncoderDecoder._inference_step, line 439
inference_step(batch) ==
    /\ pc = "idle" /\ module.cls = "EncoderDecoder"
    /\ SetRoutingInfos(RoutingInfo(batch, TaskOf(batch)))
    /\ run' = Begin("_inference_step", batch)
    /\ pc' = "pr_set"
    /\ UNCHANGED module

\* EncoderDecoder.predict called on its own
predict(batch) ==
    /\ pc = "idle" /\ module.cls = "EncoderDecoder"
    /\ run' = Begin("predict", batch)
    /\ pc' = "pr_set"
    /\ UNCHANGED <<module, task_id_container>>

\* EncoderDecoder.predict, lines 285-286
pr_set ==
    /\ pc = "pr_set"
    /\ SetRoutingInfos(RoutingInfo(run.batch, TaskOf(run.batch)))
    /\ pc' = "pr_forward"
    /\ UNCHANGED <<module, run>>

\* EncoderDecoder.predict, lines 288-431
pr_forward ==
    /\ pc = "pr_forward"
    /\ ModelForward("model")
    /\ pc' = "pr_reset"
    /\ UNCHANGED <<module, task_id_container>>

\* EncoderDecoder.predict, lines 433-435
pr_reset ==
    /\ pc = "pr_reset"
    /\ SetRoutingInfos(NoneInfo)
    /\ pc' = IF run.handler = "_inference_step" THEN "is_reset" ELSE "idle"
    /\ UNCHANGED <<module, run>>

\* EncoderDecoder._inference_step, lines 442-444
is_reset ==
    /\ pc = "is_reset"
    /\ SetRoutingInfos(NoneInfo)
    /\ pc' = "idle"
    /\ UNCHANGED <<module, run>>

\* MultiExpertModel.generate, lines 175-190
generate(batch) ==
    /\ pc = "idle" /\ module.cls = "MultiExpertModel"
    /\ \/ /\ module.routing = "auto"
          /\ run' = [Begin("generate", batch) EXCEPT !.i = 1]
          /\ pc' = "ec_set"
       \/ /\ module.routing = "first"
          /\ IF module.experts = <<>>
             THEN /\ run' = [Begin("generate", batch) EXCEPT !.raised = "IndexError"]
                  /\ pc' = "idle"
             ELSE /\ run' = [Begin("generate", batch) EXCEPT !.task = module.experts[1]]
                  /\ pc' = "gen_set"
       \/ /\ module.routing = "random"
          /\ IF module.experts = <<>>
             THEN /\ run' = [Begin("generate", batch) EXCEPT !.raised = "ValueError"]
                  /\ pc' = "idle"
             ELSE /\ \E k \in DOMAIN module.experts :
                         run' = [Begin("generate", batch) EXCEPT !.task = module.experts[k]]
                  /\ pc' = "gen_set"
       \/ /\ module.routing \notin {"auto", "first", "random"}
          /\ run' = [Begin("generate", batch) EXCEPT !.task = TaskOf(batch)]
          /\ pc' = "gen_set"
    /\ UNCHANGED <<module, task_id_container>>

\* MultiExpertModel.expert_choice called on its own
expert_choice(batch) ==
    /\ pc = "idle" /\ module.cls = "MultiExpertModel"
    /\ run' = [Begin("expert_choice", batch) EXCEPT !.i = 1]
    /\ pc' = "ec_set"
    /\ UNCHANGED <<module, task_id_container>>

\* MultiExpertModel.expert_choice, lines 139-143 and 166-168: the head of the
\* loop over self.experts, and what follows the loop
ec_set ==
    /\ pc = "ec_set"
    /\ IF run.i <= Len(module.experts)
       THEN IF task_id_container.present
            THEN /\ SetRoutingInfos(RoutingInfo(run.batch, module.experts[run.i]))
                 /\ pc' = "ec_forward"
                 /\ UNCHANGED run
            ELSE Raise("AttributeError") /\ UNCHANGED task_id_container
       ELSE IF module.experts = <<>>
            THEN Raise("RuntimeError") /\ UNCHANGED task_id_container
            ELSE /\ \E k \in DOMAIN module.experts :
                        run' = [run EXCEPT !.task = module.experts[k]]
                 /\ pc' = IF run.handler = "generate" THEN "gen_set" ELSE "idle"
                 /\ UNCHANGED task_id_container
    /\ UNCHANGED module

\* MultiExpertModel.expert_choice, lines 144-164
ec_forward ==
    /\ pc = "ec_forward"
    /\ run' = [run EXCEPT !.forward = [batch |-> run.batch,
                                       ctx |-> task_id_container.routing_infos,
                                       by |-> "model"],
                          !.i = @ + 1]
    /\ pc' = "ec_set"
    /\ UNCHANGED <<module, task_id_container>>

\* MultiExpertModel.generate, lines 192-195
gen_set ==
    /\ pc = "gen_set"
    /\ IF task_id_container.present
       THEN SetRoutingInfos(RoutingInfo(run.batch, run.task))
       ELSE UNCHANGED task_id_container
    /\ pc' = "gen_forward"
    /\ UNCHANGED <<module, run>>

\* MultiExpertModel.generate, lines 197-198
gen_forward ==
    /\ pc = "gen_forward"
    /\ ModelForward("model")
    /\ pc' = "idle"
    /\ UNCHANGED <<module, task_id_container>>

-----------------------------------------------------------------------------
(* expert_library: HFExpertLibrary over a remote repository, written from  *)
(* the specification (sections 3, 4.5 and 8) and the calls of              *)
(* tests/test_expert_library.py.  add_expert, remove_expert and            *)
(* unremove_expert are taken on a library opened without a filter; what    *)
(* they do through a filtered view is not specified.                       *)

LibNames == {"abstract_algebra", "new_module"}
ModelNames == {"phi-2", "other-model"}
WeightIds == {"w1", "w2"}

\* an Expert handed to add_expert: expert_info.model and expert_weights
ExpertDumps == [model : ModelNames, weights : WeightIds]

\* a stored entry: the metadata (with its deletion flag) and the weights
Entries == [model : ModelNames, weights : WeightIds, expert_deleted : BOOLEAN]
NoEntry == [model |-> None, weights |-> None, expert_deleted |-> FALSE]
MetadataOf(dump, deleted) ==
    [model |-> dump.model, weights |-> dump.weights, expert_deleted |-> deleted]

Del(d, k) == [x \in DOMAIN d \ {k} |-> d[x]]

\* HFExpertLibrary(repo_id, model_name=None, exclude_selection=None)
NoFilter == [model_name |-> None, exclude_selection |-> {}]
Filters ==
    {NoFilter}
    \cup {[NoFilter EXCEPT !.model_name = m] : m \in ModelNames}
    \cup {[NoFilter EXCEPT !.exclude_selection = s] : s \in SUBSET LibNames \ {{}}}

\* the repositories a library can be opened on
Repos == UNION {[s -> Entries] : s \in SUBSET LibNames}

\* the names a stored repository lists by default: soft-deleted entries are
\* excluded
Live(files) == {n \in DOMAIN files : ~files[n].expert_deleted}

\* the entries a filter lets through
passes_ignoring_model_name(files, n, filter) ==
    n \notin filter.exclude_selection

passes(files, n, filter) ==
    /\ filter.model_name # None => files[n].model = filter.model_name
    /\ n \notin filter.exclude_selection

sliced(filter) == filter # NoFilter

NoUploads == [weights |-> 0, metadata |-> 0, readme |-> 0]

NoLibCall ==
    [op |-> "none", name |-> None, dump |-> NoEntry, force |-> FALSE,
     soft_delete |-> FALSE, raised |-> None, returned |-> NoEntry,
     uploads |-> NoUploads, len_before |-> 0, removed |-> NoEntry]

LibCall(op, name) ==
    [NoLibCall EXCEPT !.op = op, !.name = name,
                      !.len_before = Cardinality(DOMAIN library.data)]

\* HFExpertLibrary.__init__: read the repository, keep what the filter lets
\* through
open(filter) ==
    /\ library' = [data |-> [n \in {m \in Live(hub.files) : passes(hub.files, m, filter)}
                                 |-> hub.files[n]],
                   sliced |-> sliced(filter),
                   filter |-> filter]
    /\ libcall' = [LibCall("open", None) EXCEPT !.len_before = 0]
    /\ UNCHANGED hub

\* library[name]
getitem(name) ==
    /\ libcall' = IF name \in DOMAIN library.data
                  THEN [LibCall("getitem", name) EXCEPT !.returned = library.data[name]]
                  ELSE [LibCall("getitem", name) EXCEPT !.raised = "ValueError"]
    /\ UNCHANGED <<hub, library>>

\* add_expert: the duplicate check
add_raises_never(name, force) == FALSE

add_raises(name, force) == name \in DOMAIN library.data /\ ~force

\* add_expert: what a successful call uploads
add_uploads_twice == [weights |-> 2, metadata |-> 1, readme |-> 1]

add_uploads == [weights |-> 1, metadata |-> 1, readme |-> 1]

\* library.add_expert(expert_dump, expert_name, force=False)
add_expert(dump, name, force) ==
    /\ ~library.sliced
    /\ IF add_raises(name, force)
       THEN /\ libcall' = [LibCall("add_expert", name) EXCEPT
                               !.dump = MetadataOf(dump, FALSE), !.force = force,
                               !.raised = "ValueError"]
            /\ UNCHANGED <<hub, library>>
       ELSE LET entry == MetadataOf(dump, FALSE)
                data == Put(library.data, name, entry)
            IN /\ hub' = [files |-> Put(hub.files, name, entry), readme |-> DOMAIN data]
               /\ library' = [library EXCEPT !.data = data]
               /\ libcall' = [LibCall("add_expert", name) EXCEPT
                                  !.dump = entry, !.force = force,
                                  !.uploads = add_uploads]

\* remove_expert: what a soft delete leaves in the repository
soft_deleted_files_erased(files, name) == Del(files, name)

soft_deleted_files(files, name) == [files EXCEPT ![name].expert_deleted = TRUE]

\* remove_expert: what a successful call uploads
remove_uploads(soft_delete) ==
    [weights |-> 0, metadata |-> IF soft_delete THEN 1 ELSE 0, readme |-> 1]

\* library.remove_expert(expert_name, soft_delete=True)
remove_expert(name, soft_delete) ==
    /\ ~library.sliced
    /\ IF name \notin DOMAIN library.data
       THEN /\ libcall' = [LibCall("remove_expert", name) EXCEPT
                               !.soft_delete = soft_delete, !.raised = "ValueError"]
            /\ UNCHANGED <<hub, library>>
       ELSE LET data == Del(library.data, name)
            IN /\ hub' = [files |-> IF soft_delete
                                    THEN soft_deleted_files(hub.files, name)
                                    ELSE Del(hub.files, name),
                          readme |-> DOMAIN data]
               /\ library' = [library EXCEPT !.data = data]
               /\ libcall' = [LibCall("remove_expert", name) EXCEPT
                                  !.soft_delete = soft_delete,
                                  !.removed = library.data[name],
                                  !.uploads = remove_uploads(soft_delete)]

\* library.unremove_expert(expert_name): the entry kept by a soft delete is
\* read back from the repository and its deletion flag cleared
unremove_expert(name) ==
    /\ ~library.sliced
    /\ IF name \notin DOMAIN hub.files
       THEN /\ libcall' = [LibCall("unremove_expert", name) EXCEPT !.raised = "ValueError"]
            /\ UNCHANGED <<hub, library>>
       ELSE LET entry == [hub.files[name] EXCEPT !.expert_deleted = FALSE]
                data == Put(library.data, name, entry)
            IN /\ hub' = [files |-> Put(hub.files, name, entry), readme |-> DOMAIN data]
               /\ library' = [library EXCEPT !.data = data]
               /\ libcall' = [LibCall("unremove_expert", name) EXCEPT
                                  !.returned = entry,
                                  !.uploads = [weights |-> 0, metadata |-> 1, readme |-> 1]]

-----------------------------------------------------------------------------
(* expert_library.retry, written from the specification (sections 5 and 6) *)
(* and its use on svd_transform_with_retry.                                *)

MAX_RETRIES == 5     \* @retry(max_retries=5, ...)
WAIT_SECONDS == 60   \* @retry(..., wait_seconds=60)

\* svd_transform_with_retry(svd_embedder, expert_lib, upload_to_hf, force)
RetryArgs == [upload_to_hf : BOOLEAN, force : BOOLEAN]
TransientErrors == {"ConnectionError", "HTTPError", "TimeoutError"}
Results == {"embeddings", "cached embeddings"}

NoAttempt ==
    [state |-> "idle", args |-> [upload_to_hf |-> FALSE, force |-> FALSE],
     outcomes |-> <<>>, last_error |-> None, result |-> None, raised |-> None,
     waited |-> 0]

\* whether the wrapper gives up after its n-th failed attempt
exhausted_never(n) == FALSE

exhausted(n) == n >= MAX_RETRIES

\* the wrapped function is called: the first attempt starts
retry_call(args) ==
    /\ attempt.state \in {"idle", "returned", "failed"}
    /\ attempt' = [NoAttempt EXCEPT !.state = "calling", !.args = args]

\* the running attempt returns: the wrapper returns its result
retry_attempt_returns(result) ==
    /\ attempt.state = "calling"
    /\ attempt' = [attempt EXCEPT !.state = "returned", !.result = result,
                                  !.outcomes = Append(@, "returned")]

\* the running attempt raises: the wrapper waits and tries again, or, after
\* the last attempt, raises to the caller
retry_attempt_raises(error) ==
    /\ attempt.state = "calling"
    /\ LET n == Len(attempt.outcomes) + 1
       IN attempt' = IF exhausted(n)
                     THEN [attempt EXCEPT !.state = "failed", !.last_error = error,
                                          !.raised = "RuntimeError",
                                          !.outcomes = Append(@, "raised")]
                     ELSE [attempt EXCEPT !.state = "waiting", !.last_error = error,
                                          !.waited = @ + WAIT_SECONDS,
                                          !.outcomes = Append(@, "raised")]

\* time.sleep(wait_seconds) is over: the next attempt starts
retry_wakes ==
    /\ attempt.state = "waiting"
    /\ attempt' = [attempt EXCEPT !.state = "calling"]

-----------------------------------------------------------------------------
(* expert_model.py: MultiExpertModel.load_expert.  The live model below    *)
(* it (add_expert_to_transformer, the containers and their selectors,      *)
(* set_selector, get_merged_expert) is written from the specification      *)
(* (sections 3 and 4.4) and the calls of tests/test_expert_model.py.       *)

MaxExperts == 2     \* at most this many experts are added to one model

ExpertActions == {"merge", "route"}
SelectorKinds == {"PolySelector", "TaskNameSelector"}
SelectorModifiers == {"lora"}
LoRAParams == {"lora_a", "lora_b"}

\* what module_graph.load_expert(expert_path) returns: expert_config.model
\* and the layers its expert_weights cover
LoadedExperts == [model : ModelNames, modify_layers : Patterns]

NoContainers == [experts |-> EmptyDict, merged |-> {}, selector_config |-> EmptyDict]

\* the layers of self.model that hold at least one routed expert
WrappedLayers(c) == UNION {c.experts[n].modify_layers : n \in DOMAIN c.experts}

NoExpertCall ==
    [op |-> "none", name |-> None, model |-> None, action |-> None,
     raised |-> None, added |-> FALSE, weights |-> {}, before |-> None]

\* add_expert_to_transformer rejects a name a container already holds
add_expert_to_transformer_raises(c, name, action) ==
    action = "route" /\ name \in DOMAIN c.experts

\* add_expert_to_transformer(self.model, name, config, weights, action):
\* "merge" folds the expert into the base weights, "route" puts it in the
\* container of every layer it covers
add_expert_to_transformer(c, name, expert, action) ==
    IF action = "merge"
    THEN [c EXCEPT !.merged = @ \cup {name}]
    ELSE [c EXCEPT !.experts = Put(@, name, expert)]

\* every container owns one selector of the kind configured for its
\* modifier; none is listed before set_selector configures one
selectors_of(c) ==
    [m \in DOMAIN c.selector_config |->
        [l \in WrappedLayers(c) |-> c.selector_config[m]]]

\* load_expert: the compatibility check
incompatible_never(expert) == FALSE

incompatible(expert) == hparams.model # expert.model

\* MultiExpertModel.load_expert(expert_path, expert_name, action)
load_expert(expert, expert_name, action) ==
    /\ Cardinality(DOMAIN containers.experts) + Cardinality(containers.merged) < MaxExperts
    /\ LET c == add_expert_to_transformer(containers, expert_name, expert, action)
           this == [NoExpertCall EXCEPT !.op = "load_expert", !.name = expert_name,
                                        !.model = expert.model, !.action = action]
       IN IF incompatible(expert)
          THEN /\ excall' = [this EXCEPT !.raised = "ValueError"]
               /\ UNCHANGED <<module, containers, selectors>>
          ELSE IF add_expert_to_transformer_raises(containers, expert_name, action)
          THEN /\ excall' = [this EXCEPT !.raised = "ValueError", !.added = TRUE]
               /\ UNCHANGED <<module, containers, selectors>>
          ELSE /\ excall' = [this EXCEPT !.added = TRUE]
               /\ containers' = c
               /\ selectors' = selectors_of(c)
               /\ module' = IF action # "merge"
                            THEN [module EXCEPT !.experts = Append(@, expert_name)]
                            ELSE module
    /\ UNCHANGED hparams

\* model.add_empty_expert(name, LoRAConfig(modify_layers=...))
add_empty_expert(name, modify_layers) ==
    /\ Cardinality(DOMAIN containers.experts) + Cardinality(containers.merged) < MaxExperts
    /\ LET expert == [model |-> hparams.model, modify_layers |-> modify_layers]
           c == add_expert_to_transformer(containers, name, expert, "route")
           this == [NoExpertCall EXCEPT !.op = "add_empty_expert", !.name = name,
                                        !.model = hparams.model, !.action = "route"]
       IN IF add_expert_to_transformer_raises(containers, name, "route")
          THEN /\ excall' = [this EXCEPT !.raised = "ValueError", !.added = TRUE]
               /\ UNCHANGED <<module, containers, selectors>>
          ELSE /\ excall' = [this EXCEPT !.added = TRUE]
               /\ containers' = c
               /\ selectors' = selectors_of(c)
               /\ module' = [module EXCEPT !.experts = Append(@, name)]
    /\ UNCHANGED hparams

\* set_selector: the selectors the model holds for the modifier afterwards
set_selector_keeps_old(c, modifier, selector) ==
    IF modifier \in DOMAIN c.selector_config
    THEN c
    ELSE [c EXCEPT !.selector_config = Put(@, modifier, selector)]

set_selector_config(c, modifier, selector) ==
    [c EXCEPT !.selector_config = Put(@, modifier, selector)]

\* model.set_selector(modifier, selector_config): every container of the
\* modifier gets a new selector of the configured kind, in place of the one
\* it had
set_selector(modifier, selector) ==
    /\ LET c == set_selector_config(containers, modifier, selector)
       IN /\ containers' = c
          /\ selectors' = selectors_of(c)
    /\ excall' = [NoExpertCall EXCEPT !.op = "set_selector", !.name = modifier,
                                      !.action = selector,
                                      !.before = Get(containers.selector_config,
                                                     modifier, None)]
    /\ UNCHANGED <<module, hparams>>

\* get_merged_expert: the routing configurations it is defined for
mergeable_always(c) == TRUE

mergeable(c) ==
    \A m \in DOMAIN c.selector_config : c.selector_config[m] = "PolySelector"

\* get_merged_expert: one weight per LoRA parameter of every wrapped layer
merged_weights(c) == WrappedLayers(c) \X LoRAParams

\* model.get_merged_expert(task_name): the experts of every container
\* mixed by the selector's weights into one expert
get_merged_expert ==
    /\ DOMAIN containers.selector_config # {}
    /\ excall' = IF mergeable(containers)
                 THEN [NoExpertCall EXCEPT !.op = "get_merged_expert",
                                           !.weights = merged_weights(containers)]
                 ELSE [NoExpertCall EXCEPT !.op = "get_merged_expert",
                                           !.raised = "NotImplementedError"]
    /\ UNCHANGED <<module, hparams, containers, selectors>>

-----------------------------------------------------------------------------
(* encdec.py: EncoderDecoder.inference_epoch_end on every rank of a run.   *)

MaxWorld == 2       \* at most this many ranks
MaxEpochs == 2      \* evaluation epochs of one run

Splits == {"val", "test"}

\* the accuracies compute_metric may give (a lower and a higher one)
Accuracies == {0, 1}

\* the outputs a rank has collected in self._inference_outputs: a list of
\* batch outputs, each with the idx of its examples
OutputChoices == {<<>>, <<<<1>>>>, <<<<1>>, <<2>>>>}

RanksOf(d) == 0..(d.world_size - 1)

\* self.use_deepspeed or self.use_ddp
Distributed(d) == d.distributed

\* the process groups a run can have
ProcessGroups ==
    {[world_size |-> 1, distributed |-> FALSE]}
    \cup [world_size : 1..MaxWorld, distributed : {TRUE}]

EmptyMetrics == [kind |-> "empty", split |-> None, accuracy |-> 0, n |-> 0, epoch |-> 0]
NoResult == [EmptyMetrics EXCEPT !.kind = "None"]

\* a rank after EncoderDecoder.__init__ (lines 63-68)
NewRank ==
    [pc |-> "idle", epoch |-> 0, split |-> None, outputs |-> <<>>,
     entered |-> 0, gathers |-> 0, aggregated |-> 0,
     metrics |-> NoResult, raised |-> None,
     best_val_result |-> NoResult, test_results |-> <<>>]

RECURSIVE Flatten(_)
Flatten(ss) == IF ss = <<>> THEN <<>> ELSE Head(ss) \o Flatten(Tail(ss))

\* lines 465-469: the outputs of every rank, in rank order
GatheredOutputs(d) ==
    Flatten([i \in 1..d.world_size |-> d.box[i - 1]])

\* lines 473-485: the idx of all batch outputs, first occurrences only
Accumulated(outputs) ==
    LET idx == Flatten(outputs)
    IN SelectSeq([i \in 1..Len(idx) |->
                     IF \E j \in 1..(i - 1) : idx[j] = idx[i] THEN 0 ELSE idx[i]],
                 LAMBDA v : v # 0)

\* line 471: the ranks that aggregate
aggregates_on_every_rank(d, r) == TRUE

aggregates(d, r) == ~Distributed(d) \/ r = 0

\* on_validation_epoch_end / on_test_epoch_end call
\* inference_epoch_end(self._inference_outputs, split)
inference_epoch_end(r, outputs) ==
    /\ ranks[r].pc = "idle"
    /\ ranks[r].epoch < MaxEpochs
    /\ ranks' = [ranks EXCEPT ![r] =
                    [@ EXCEPT !.pc = IF Distributed(dist) THEN "all_gather" ELSE "decide",
                              !.epoch = @ + 1,
                              !.split = dist.splits[ranks[r].epoch + 1],
                              !.outputs = outputs,
                              !.metrics = NoResult,
                              !.raised = None]]
    /\ UNCHANGED <<dist, scores_file>>

\* line 463, dist.all_gather_object: the rank hands in its outputs and blocks
all_gather_enter(r) ==
    /\ ranks[r].pc = "all_gather"
    /\ r \notin DOMAIN dist.box
    /\ dist' = [dist EXCEPT !.box = Put(@, r, ranks[r].outputs)]
    /\ ranks' = [ranks EXCEPT ![r] = [@ EXCEPT !.pc = "blocked", !.entered = @ + 1]]
    /\ UNCHANGED scores_file

\* line 463 returns once every rank has handed in its outputs; lines 464-469
all_gather_leave(r) ==
    /\ ranks[r].pc = "blocked"
    /\ DOMAIN dist.box = RanksOf(dist)
    /\ ranks' = [ranks EXCEPT ![r] =
                    [@ EXCEPT !.pc = "decide", !.gathers = @ + 1,
                              !.outputs = IF r = 0 THEN GatheredOutputs(dist) ELSE @]]
    /\ dist' = IF dist.left \cup {r} = RanksOf(dist)
               THEN [dist EXCEPT !.box = EmptyDict, !.left = {}]
               ELSE [dist EXCEPT !.left = @ \cup {r}]
    /\ UNCHANGED scores_file

\* lines 471-527 on a rank that aggregates
aggregate_latest_on_ties(r, accuracy) ==
    /\ ranks[r].pc = "decide"
    /\ aggregates(dist, r)
    /\ IF ranks[r].outputs = <<>>
       THEN \* line 473: outputs[0] on an empty list
            /\ ranks' = [ranks EXCEPT ![r] = [@ EXCEPT !.pc = "idle", !.raised = "IndexError"]]
            /\ UNCHANGED scores_file
       ELSE LET me == ranks[r]
                metrics == [kind |-> "metrics", split |-> me.split, accuracy |-> accuracy,
                            n |-> Len(Accumulated(me.outputs)), epoch |-> me.epoch]
                best == IF me.split # "val" THEN me.best_val_result
                        ELSE IF me.best_val_result = NoResult THEN metrics
                        ELSE IF me.best_val_result.accuracy <= accuracy THEN metrics
                        ELSE me.best_val_result
            IN /\ scores_file' = Append(scores_file, [rank |-> r, metrics |-> metrics])
               /\ ranks' = [ranks EXCEPT ![r] =
                               [@ EXCEPT !.pc = "idle", !.metrics = metrics,
                                         !.aggregated = @ + 1,
                                         !.best_val_result = best,
                                         !.test_results =
                                             IF me.split = "test" THEN Append(@, metrics) ELSE @]]
    /\ UNCHANGED dist

aggregate(r, accuracy) ==
    /\ ranks[r].pc = "decide"
    /\ aggregates(dist, r)
    /\ IF ranks[r].outputs = <<>>
       THEN \* line 473: outputs[0] on an empty list
            /\ ranks' = [ranks EXCEPT ![r] = [@ EXCEPT !.pc = "idle", !.raised = "IndexError"]]
            /\ UNCHANGED scores_file
       ELSE LET me == ranks[r]
                metrics == [kind |-> "metrics", split |-> me.split, accuracy |-> accuracy,
                            n |-> Len(Accumulated(me.outputs)), epoch |-> me.epoch]
                best == IF me.split # "val" THEN me.best_val_result
                        ELSE IF me.best_val_result = NoResult THEN metrics
                        ELSE IF me.best_val_result.accuracy < accuracy THEN metrics
                        ELSE me.best_val_result
            IN /\ scores_file' = Append(scores_file, [rank |-> r, metrics |-> metrics])
               /\ ranks' = [ranks EXCEPT ![r] =
                               [@ EXCEPT !.pc = "idle", !.metrics = metrics,
                                         !.aggregated = @ + 1,
                                         !.best_val_result = best,
                                         !.test_results =
                                             IF me.split = "test" THEN Append(@, metrics) ELSE @]]
    /\ UNCHANGED dist

\* lines 528-530 on every other rank
return_empty(r) ==
    /\ ranks[r].pc = "decide"
    /\ ~aggregates(dist, r)
    /\ ranks' = [ranks EXCEPT ![r] = [@ EXCEPT !.pc = "idle", !.metrics = EmptyMetrics]]
    /\ UNCHANGED <<dist, scores_file>>

-----------------------------------------------------------------------------
(* adapters.py: the constructors LoRA(config, layer),                      *)
(* SkilledLoRA(config, layer) and IA3(config, layer) on any layer.         *)

AdapterClasses == Kinds \cup {"IA3"}

\* the layers a constructor can be handed: an nn.Linear, a layer without
\* in_features / out_features (a normalization layer), and a module of
\* another class with or without those two attributes
CtorLayers ==
    {[cls |-> "Linear", has_features |-> TRUE],
     [cls |-> "LayerNorm", has_features |-> FALSE],
     [cls |-> "Custom", has_features |-> TRUE],
     [cls |-> "Custom", has_features |-> FALSE]}

\* isinstance(layer, nn.Linear)
isinstance_Linear_anything(l) == TRUE

isinstance_Linear(l) == l.cls = "Linear"

NoBuilt ==
    [cls |-> None, layer |-> [cls |-> None, has_features |-> FALSE],
     config |-> [lora_rank |-> 1, lora_alpha |-> 1, lora_warmup |-> FALSE,
                 lora_init_b_random |-> FALSE, n_splits |-> 1, n_skills |-> 1],
     raised |-> None, forward_fn |-> "unset", returned |-> FALSE,
     size_a |-> 0, size_b |-> 0]

\* LoRA.create_for_layer / SkilledLoRA.create_for_layer, applied to the
\* object b that __init__ has filled in so far
create_for_layer(b, k, c, l) ==
    IF isinstance_Linear(l)
    THEN [b EXCEPT !.size_a = SizeA(k, c, [in_features |-> InFeatures,
                                          out_features |-> OutFeatures]),
                   !.size_b = SizeB(k, c, [in_features |-> InFeatures,
                                          out_features |-> OutFeatures]),
                   !.forward_fn = "forward_linear_"]
    ELSE [b EXCEPT !.raised = "NotImplementedError"]

\* LoRA.__init__ (SkilledLoRA.__init__ sets n_splits, n_skills and calls it)
LoRA_init(k, c, l) ==
    LET b0 == [NoBuilt EXCEPT !.cls = k, !.layer = l, !.config = c]
    IN IF ~l.has_features
       THEN \* line 31: layer.in_features
            [b0 EXCEPT !.raised = "AttributeError"]
       ELSE LET b1 == create_for_layer([b0 EXCEPT !.forward_fn = None],  \* line 36
                                       k, c, l)
            IN IF b1.raised # None THEN b1
               ELSE [b1 EXCEPT !.returned = TRUE]        \* after reset_parameters

\* IA3.__init__
IA3_init(c, l) ==
    LET b0 == [NoBuilt EXCEPT !.cls = "IA3", !.layer = l, !.config = c]
    IN IF ~isinstance_Linear(l)
       THEN [b0 EXCEPT !.raised = "AssertionError"]
       ELSE \* IA3 has its own forward and never sets a forward_fn attribute
            [b0 EXCEPT !.size_b = OutFeatures, !.returned = TRUE]

\* Adapter(config, layer) for one of the three classes
construct(k, c, l) ==
    built' = IF k = "IA3" THEN IA3_init(c, l) ELSE LoRA_init(k, c, l)

-----------------------------------------------------------------------------
(* encdec.py: the lists EncoderDecoder.inference_epoch_end accumulates     *)
(* from the batch outputs and filters for duplicates (lines 473-485).      *)

MaxOutputs == 2     \* at most this many batch outputs reach one aggregation

ExampleIds == {1, 2}
Predictions == {0, 1}

\* what predict returns for a batch (lines 425-431): per-example lists of
\* one length; "prediction" stands for every key other than "idx"
OutputKeys == {"idx", "prediction"}
BatchOutputs ==
    UNION {[idx : [1..n -> ExampleIds], prediction : [1..n -> Predictions]] :
              n \in 1..MaxBatch}

\* lines 473-476: accumulated[key].extend(value) over the batch outputs
accumulate(outputs, key) == Flatten([b \in 1..Len(outputs) |-> outputs[b][key]])

\* lines 479-483: valid_mask.append(idx not in idx_set); idx_set.add(idx)
valid_mask_keeps_last(idx) ==
    [i \in 1..Len(idx) |-> ~\E j \in (i + 1)..Len(idx) : idx[j] = idx[i]]

valid_mask(idx) ==
    [i \in 1..Len(idx) |-> ~\E j \in 1..(i - 1) : idx[j] = idx[i]]

\* line 485: [v for v, m in zip(values, valid_mask) if m]
zip_filter(values, mask) ==
    LET n == IF Len(values) < Len(mask) THEN Len(values) ELSE Len(mask)
        kept == SelectSeq([i \in 1..n |-> i], LAMBDA i : mask[i])
    IN [k \in 1..Len(kept) |-> values[kept[k]]]

NoDedup ==
    [outputs |-> <<>>, raw |-> [k \in OutputKeys |-> <<>>],
     accumulated |-> [k \in OutputKeys |-> <<>>], done |-> FALSE]

\* lines 473-485 on the gathered outputs
accumulate_and_filter ==
    /\ ~dedup.done
    /\ dedup.outputs # <<>>
    /\ LET raw == [k \in DOMAIN dedup.outputs[1] |-> accumulate(dedup.outputs, k)]
           mask == valid_mask(raw["idx"])
       IN dedup' = [dedup EXCEPT !.raw = raw,
                                 !.accumulated = [k \in DOMAIN raw |-> zip_filter(raw[k], mask)],
                                 !.done = TRUE]

-----------------------------------------------------------------------------
(* encdec.py: EncoderDecoder.save_model, called by training_step and       *)
(* on_train_end, over the steps of one training run.                       *)

MaxTrainSteps == 3   \* optimizer steps explored from the starting step
MaxWrites == 3       \* checkpoint files written in one run
SAVE_AT_STEP == 25000    \* ... or self.global_step == 25_000

\* config.save_every: None (falsy) or a number of steps
SaveEvery == {None, "1", "2"}
StepsOf(save_every) == IF save_every = "1" THEN 1 ELSE IF save_every = "2" THEN 2 ELSE 0

\* the step a run starts from: a new run, or one resumed near step 25,000
StartSteps == {0, SAVE_AT_STEP - 2}

\* a checkpoint file: "finish.pt" or f"global_step{step}.pt"
Checkpoint(name, step) == [name |-> name, step |-> step]
NoCheckpoint == Checkpoint(None, 0)
model_fname(finish, global_step) ==
    IF finish THEN Checkpoint("finish.pt", 0)
    ELSE Checkpoint("global_step.pt", global_step)

NoSaverCall == [op |-> "none", finish |-> FALSE, model_fname |-> NoCheckpoint,
                raised |-> None]

\* EncoderDecoder.__init__, line 62
NoSaver ==
    [save_every |-> None, start |-> 0, global_step |-> 0,
     _last_global_step_saved |-> -1, writes |-> <<>>, call |-> NoSaverCall]

\* line 262
should_save_always(sv, finish) == TRUE

should_save(sv, finish) == finish \/ sv._last_global_step_saved # sv.global_step

\* lines 237-241
triggers(sv) ==
    \/ /\ sv.save_every # None /\ StepsOf(sv.save_every) # 0
       /\ sv.global_step % StepsOf(sv.save_every) = 0
       /\ sv.global_step > 0
    \/ sv.global_step = SAVE_AT_STEP

\* save_model(finish), lines 261-271; saved tells whether
\* trainer.save_checkpoint wrote the file or raised
save_model(sv, op, finish, saved) ==
    LET this == [NoSaverCall EXCEPT !.op = op, !.finish = finish]
    IN IF ~should_save(sv, finish)
       THEN [sv EXCEPT !.call = this]
       ELSE IF ~saved
       THEN [sv EXCEPT !.call = [this EXCEPT !.model_fname = model_fname(finish, sv.global_step),
                                             !.raised = "OSError"]]
       ELSE [sv EXCEPT !.call = [this EXCEPT !.model_fname = model_fname(finish, sv.global_step)],
                       !.writes = Append(@, model_fname(finish, sv.global_step)),
                       !._last_global_step_saved = sv.global_step]

\* training_step, lines 237-242
training_step_saves(saved) ==
    /\ Len(saver.writes) < MaxWrites
    /\ saver' = IF triggers(saver)
                THEN save_model(saver, "training_step", FALSE, saved)
                ELSE [saver EXCEPT !.call = [NoSaverCall EXCEPT !.op = "training_step"]]

\* a call of save_model(finish) from outside training_step; on_train_end
\* (lines 273-274) is the one with finish = True
call_save_model(finish, saved) ==
    /\ Len(saver.writes) < MaxWrites
    /\ saver' = save_model(saver, "save_model", finish, saved)

\* the trainer finishes an optimizer step: self.global_step advances
optimizer_step ==
    /\ saver.global_step < saver.start + MaxTrainSteps
    /\ saver' = [saver EXCEPT !.global_step = @ + 1, !.call = NoSaverCall]

-----------------------------------------------------------------------------
(* callbacks.py: the checkpointing callbacks.  A metric is a whole number  *)
(* of units of 0.00004; a checkpoint path is known by the number its       *)
(* f"{value:.004f}" file name shows, in units of 0.0001; -1 stands for      *)
(* None in best_val_loss, _best_rouge and _prev_checkpoint.                *)

MaxMetric == 3      \* metrics range over 0..MaxMetric units

Metrics == 0..MaxMetric
NoMetric == -1
NoPath == -1

\* f"{value:.004f}": the value rounded to four decimals
fmt_004f(value) == (4 * value + 5) \div 10

NoCallbackCall == [op |-> "none", value |-> NoMetric, ckpt_path |-> NoPath,
                   removed |-> NoPath, raised |-> None]

\* ValLossCheckpointCallback.__init__, lines 111-116, and an empty output
\* directory
NoValCallback ==
    [best_val_loss |-> NoMetric, _prev_checkpoint |-> NoPath, files |-> {},
     seen |-> {}, call |-> NoCallbackCall]

\* line 125
improves(cb, result) ==
    cb.best_val_loss = NoMetric \/ result < cb.best_val_loss

\* save_best_val_model, lines 130-143, once best_val_loss is set; saved
\* tells whether trainer.save_checkpoint wrote the file or raised
save_best_val_model(cb, saved) ==
    LET ckpt_path == fmt_004f(cb.best_val_loss)
        removes == /\ cb._prev_checkpoint # NoPath
                   /\ ckpt_path # cb._prev_checkpoint
                   /\ cb._prev_checkpoint \in cb.files
        left == IF removes THEN cb.files \ {cb._prev_checkpoint} ELSE cb.files
        this == [cb.call EXCEPT !.ckpt_path = ckpt_path,
                                !.removed = IF removes THEN cb._prev_checkpoint ELSE NoPath]
    IN IF saved
       THEN [cb EXCEPT !.files = left \cup {ckpt_path},
                       !._prev_checkpoint = ckpt_path,
                       !.call = this]
       ELSE [cb EXCEPT !.files = left,
                       !.call = [this EXCEPT !.raised = "OSError"]]

\* ValLossCheckpointCallback.on_validation_epoch_end(trainer, pl_module),
\* lines 122-128, with result = pl_module.best_val_result
val_on_validation_epoch_end(result, saved) ==
    LET this == [NoCallbackCall EXCEPT !.op = "on_validation_epoch_end", !.value = result]
        cb == [valcb EXCEPT !.seen = @ \cup {result}, !.call = this]
    IN valcb' = IF improves(valcb, result)
                THEN save_best_val_model([cb EXCEPT !.best_val_loss = result], saved)
                ELSE cb

-----------------------------------------------------------------------------
(* callbacks.py: RougeLCallback, its best_loss setter and                  *)
(* maybe_checkpoint_now.                                                   *)

NoRougeCall == [op |-> "none", value |-> NoMetric, ckpt_path |-> NoPath,
                wrote |-> FALSE, removed |-> NoPath, raised |-> None]

\* RougeLCallback.__init__, lines 26-36, and an empty output directory;
\* assigned and checked keep the values assigned so far and those assigned
\* before the last maybe_checkpoint_now
NoRougeCallback ==
    [do_checkpoint |-> FALSE, _best_rouge |-> NoMetric, _checkpoint_now |-> FALSE,
     _prev_checkpoint |-> NoPath, files |-> {}, assigned |-> {}, checked |-> {},
     call |-> NoRougeCall]

\* lines 56 and 60
rouge_improves_on_ties(cb, value) ==
    cb._best_rouge = NoMetric \/ value >= cb._best_rouge

rouge_improves(cb, value) ==
    cb._best_rouge = NoMetric \/ value > cb._best_rouge

\* best_loss.setter, lines 54-62
set_best_loss(cb, value) ==
    LET c == [cb EXCEPT !.assigned = @ \cup {value},
                        !.call = [NoRougeCall EXCEPT !.op = "best_loss", !.value = value]]
    IN IF rouge_improves(cb, value)
       THEN [c EXCEPT !._best_rouge = value, !._checkpoint_now = TRUE]
       ELSE c

\* maybe_checkpoint_now, lines 76-92; saved tells whether
\* trainer.save_checkpoint wrote the file or raised
maybe_checkpoint_now(cb, saved) ==
    LET this == [NoRougeCall EXCEPT !.op = "maybe_checkpoint_now"]
        c == [cb EXCEPT !._checkpoint_now = FALSE, !.checked = cb.assigned]
        ckpt_path == fmt_004f(cb._best_rouge)
        removes == cb._prev_checkpoint # NoPath /\ ckpt_path # cb._prev_checkpoint
    IN IF ~(cb.do_checkpoint /\ cb._checkpoint_now)
       THEN [c EXCEPT !.call = this]
       ELSE IF ~saved
       THEN [c EXCEPT !.call = [this EXCEPT !.ckpt_path = ckpt_path, !.raised = "OSError"]]
       ELSE IF removes /\ cb._prev_checkpoint \notin (cb.files \cup {ckpt_path})
       THEN \* os.remove of a missing file: caught, line 89 is not reached
            [c EXCEPT !.files = @ \cup {ckpt_path},
                      !.call = [this EXCEPT !.ckpt_path = ckpt_path, !.wrote = TRUE,
                                            !.raised = "FileNotFoundError"]]
       ELSE [c EXCEPT !.files = IF removes
                                THEN (@ \cup {ckpt_path}) \ {cb._prev_checkpoint}
                                ELSE @ \cup {ckpt_path},
                      !._prev_checkpoint = ckpt_path,
                      !.call = [this EXCEPT !.ckpt_path = ckpt_path, !.wrote = TRUE,
                                            !.removed = IF removes THEN cb._prev_checkpoint
                                                        ELSE NoPath]]

\* on_before_optimizer_step at an evaluated step, lines 67-70, with
\* metrics = self.test(pl_module)
rouge_on_before_optimizer_step(cb, metrics, saved) ==
    [maybe_checkpoint_now(set_best_loss(cb, metrics), saved)
        EXCEPT !.call.op = "on_before_optimizer_step", !.call.value = metrics]

-----------------------------------------------------------------------------
(* parallel_evolution.py: find_ai and increase_ai on repository ids.  A    *)
(* string is the sequence of its characters.                               *)

MaxIdLen == 5       \* repository ids of 1..MaxIdLen characters

Alphabet == {"r", "_", "a", "i", "0", "1"}
RepoIds == UNION {[1..n -> Alphabet] : n \in 1..MaxIdLen}

DigitChars == <<"0", "1", "2", "3", "4", "5", "6", "7", "8", "9">>
IsDigit(c) == \E d \in 1..10 : DigitChars[d] = c
DigitValue(c) == (CHOOSE d \in 1..10 : DigitChars[d] = c) - 1

\* int(digits)
RECURSIVE int(_)
int(digits) ==
    IF digits = <<>> THEN 0
    ELSE 10 * int(SubSeq(digits, 1, Len(digits) - 1)) + DigitValue(digits[Len(digits)])

\* str(n) / f"{n}" for n >= 0
RECURSIVE str(_)
str(n) == IF n < 10 THEN <<DigitChars[n + 1]>> ELSE str(n \div 10) \o <<DigitChars[(n % 10) + 1]>>

\* whether sub occurs in s at position p
OccursAt(s, sub, p) ==
    p + Len(sub) - 1 <= Len(s) /\ SubSeq(s, p, p + Len(sub) - 1) = sub

\* re.search(r"_ai(\d+)$", s): the positions where the pattern matches
Matches(s) ==
    {p \in 1..Len(s) :
        /\ OccursAt(s, <<"_", "a", "i">>, p)
        /\ p + 3 <= Len(s)
        /\ \A q \in (p + 3)..Len(s) : IsDigit(s[q])}

\* find_ai(s), lines 43-45
find_ai(s) ==
    IF Matches(s) = {} THEN 0
    ELSE LET p == CHOOSE p \in Matches(s) : \A q \in Matches(s) : p <= q
         IN int(SubSeq(s, p + 3, Len(s)))

\* s.split(sep)[0]
split_0(s, sep) ==
    LET at == {p \in 1..Len(s) : OccursAt(s, sep, p)}
    IN IF at = {} THEN s
       ELSE SubSeq(s, 1, (CHOOSE p \in at : \A q \in at : p <= q) - 1)

\* increase_ai(s), lines 48-54
increase_ai(s) ==
    LET ai == find_ai(s)
    IN IF ai = 0
       THEN s \o <<"_", "a", "i", "1">>
       ELSE split_0(s, <<"_", "a", "i">> \o str(ai)) \o <<"_", "v">> \o str(ai + 1)

NoNaming == [hf_repo_id |-> <<>>, ai |-> 0, to_repo_id |-> <<>>, done |-> FALSE]

\* setup, lines 66-67
setup_to_repo_id ==
    /\ ~naming.done
    /\ naming' = [naming EXCEPT !.ai = find_ai(naming.hf_repo_id),
                                !.to_repo_id = increase_ai(naming.hf_repo_id),
                                !.done = TRUE]

-----------------------------------------------------------------------------
(* finetune_experts.py: the val_check_interval train_module hands to the   *)
(* Trainer.  An optional number is a record: None, or a value.             *)

MaxInterval == 3    \* eval_every, total_steps and the batches range up to it

NoneValue == [none |-> TRUE, value |-> 0]
Some(v) == [none |-> FALSE, value |-> v]

\* args.eval_every, args.gradient_accumulation_steps, args.total_steps and
\* len(dm.train_dataloader())
EvalEvery == {NoneValue} \cup {Some(v) : v \in -1..MaxInterval}
AccumulationSteps == 1..2
TotalSteps == {-1} \cup 1..MaxInterval
TrainBatches == 1..MaxInterval

\* lines 592-600 (and again 614-622)
val_check_interval(eval_every, accumulation_steps, train_batches, total_steps) ==
    IF eval_every.none \/ eval_every.value = -1
    THEN NoneValue
    ELSE LET v == accumulation_steps * eval_every.value
         IN IF v > train_batches THEN Some(train_batches)
            ELSE IF v > total_steps /\ total_steps # -1 THEN Some(total_steps)
            ELSE Some(v)

NoInterval ==
    [eval_every |-> NoneValue, gradient_accumulation_steps |-> 1,
     train_batches |-> 1, total_steps |-> -1,
     val_check_interval |-> NoneValue, done |-> FALSE]

\* train_module, lines 592-642: the interval the Trainer is built with
train_module ==
    /\ ~interval.done
    /\ interval' = [interval EXCEPT
           !.val_check_interval =
               val_check_interval(interval.eval_every,
                                  interval.gradient_accumulation_steps,
                                  interval.train_batches, interval.total_steps),
           !.done = TRUE]

-----------------------------------------------------------------------------
(* Parked values of the parts a specification does not exercise.           *)

ParkedAdapter ==
    /\ kind = "LoRA"
    /\ config = [lora_rank |-> 1, lora_alpha |-> 1, lora_warmup |-> FALSE,
                 lora_init_b_random |-> FALSE, n_splits |-> 1, n_skills |-> 1]
    /\ layer \in Layers
    /\ lora_a = Zeros(InFeatures)
    /\ lora_b = Zeros(OutFeatures)
    /\ training = FALSE
    /\ training_steps = 0
    /\ fwd = NoCall

ParkedRegistry ==
    /\ InitRegistries
    /\ transformer = [l \in Paths |-> [requires_grad |-> TRUE, wrapped |-> FALSE,
                                        adapter_requires_grad |-> FALSE]]
    /\ task_id_container = NoContainer

ParkedRouting ==
    /\ module = [cls |-> "EncoderDecoder", loss_plugins |-> 0, smear |-> FALSE,
                 experts |-> <<>>, routing |-> "subject"]
    /\ pc = "idle"
    /\ run = NoRun

ParkedLibrary ==
    /\ hub = [files |-> EmptyDict, readme |-> {}]
    /\ library = [data |-> EmptyDict, sliced |-> FALSE, filter |-> NoFilter]
    /\ libcall = NoLibCall

ParkedRetry == attempt = NoAttempt

ParkedExperts ==
    /\ hparams = [model |-> "phi-2"]
    /\ containers = NoContainers
    /\ selectors = EmptyDict
    /\ excall = NoExpertCall

ParkedEval ==
    /\ dist = [world_size |-> 1, distributed |-> FALSE, splits |-> <<>>,
               box |-> EmptyDict, left |-> {}]
    /\ ranks = [r \in {0} |-> NewRank]
    /\ scores_file = <<>>

ParkedCreate == built = NoBuilt

ParkedRest ==
    /\ dedup = NoDedup
    /\ saver = NoSaver
    /\ valcb = NoValCallback
    /\ rougecb = NoRougeCallback
    /\ naming = NoNaming
    /\ interval = NoInterval

ParkedLater ==
    /\ ParkedLibrary /\ ParkedRetry /\ ParkedExperts /\ ParkedEval /\ ParkedCreate
    /\ ParkedRest

ParkedEarlier == ParkedAdapter /\ ParkedRegistry /\ ParkedRouting

-----------------------------------------------------------------------------
(* Specifications of the adapter.                                          *)

InitLoRA ==
    /\ InitAdapterOver({"LoRA"}, [k \in Kinds |-> Configs(k)])
    /\ ParkedRegistry /\ ParkedRouting /\ ParkedLater

notAdapterVars == <<registryVars, task_id_container, routingVars, laterVars>>

train == SetTraining(TRUE) /\ UNCHANGED notAdapterVars
eval == SetTraining(FALSE) /\ UNCHANGED notAdapterVars
forward == ForwardAny(MaxSteps) /\ UNCHANGED notAdapterVars
forward_one == ForwardOne(WarmupHorizon) /\ UNCHANGED notAdapterVars

NextLoRA == train \/ eval \/ forward

SpecLoRA == InitLoRA /\ [][NextLoRA]_vars

InitSkilled ==
    /\ InitAdapterOver({"SkilledLoRA"}, [k \in Kinds |-> Configs(k)])
    /\ ParkedRegistry /\ ParkedRouting /\ ParkedLater

SpecSkilled == InitSkilled /\ [][NextLoRA]_vars

InitWarmup ==
    /\ InitAdapterOver(Kinds, [k \in Kinds |-> WarmupConfigs(k)])
    /\ lora_a = [i \in DOMAIN lora_a |-> -1]
    /\ lora_b = [i \in DOMAIN lora_b |-> -1]
    /\ ParkedRegistry /\ ParkedRouting /\ ParkedLater

NextWarmup == train \/ eval \/ forward_one

SpecWarmup == InitWarmup /\ [][NextWarmup]_vars

-----------------------------------------------------------------------------
(* Specification of the modifier registry.                                 *)

InitRegistry ==
    /\ InitRegistries
    /\ transformer \in PlainTransformers
    /\ task_id_container = NoContainer
    /\ ParkedAdapter /\ ParkedRouting /\ ParkedLater

notRegistryVars == <<adapterVars, routingVars, laterVars>>

register ==
    /\ \E name \in Names : \E config_cls \in RegisteredConfigTypes \cup {None} :
           \E klass \in Classes : register_modifier(name, config_cls, klass)
    /\ UNCHANGED notRegistryVars

modify ==
    /\ \E cfg \in ModifierConfigs : \E model_modifier \in Names \cup {None, ""} :
           modify_transformer(cfg, model_modifier)
    /\ UNCHANGED notRegistryVars

NextRegistry == register \/ modify

SpecRegistry == InitRegistry /\ [][NextRegistry]_vars

-----------------------------------------------------------------------------
(* Specification of the routing context.                                   *)

\* an EncoderDecoder has been through modify_transformer; a MultiExpertModel
\* may wrap a model with or without a task_id_container
InitRouting ==
    /\ module \in EncoderDecoders \cup MultiExpertModels
    /\ task_id_container \in
           IF module.cls = "EncoderDecoder"
           THEN {EmptyContainer} ELSE {EmptyContainer, NoContainer}
    /\ pc = "idle"
    /\ run = NoRun
    /\ InitRegistries
    /\ transformer = [l \in Paths |-> [requires_grad |-> TRUE, wrapped |-> FALSE,
                                       adapter_requires_grad |-> FALSE]]
    /\ ParkedAdapter /\ ParkedLater

notRoutingVars == <<adapterVars, registryVars, laterVars>>

NextRouting ==
    \/ \E b \in Batches : training_step(b) /\ UNCHANGED notRoutingVars
    \/ ts_forward /\ UNCHANGED notRoutingVars
    \/ ts_reset /\ UNCHANGED notRoutingVars
    \/ ts_plugin /\ UNCHANGED notRoutingVars
    \/ \E b \in Batches : inference_step(b) /\ UNCHANGED notRoutingVars
    \/ \E b \in Batches : predict(b) /\ UNCHANGED notRoutingVars
    \/ pr_set /\ UNCHANGED notRoutingVars
    \/ pr_forward /\ UNCHANGED notRoutingVars
    \/ pr_reset /\ UNCHANGED notRoutingVars
    \/ is_reset /\ UNCHANGED notRoutingVars
    \/ \E b \in Batches : generate(b) /\ UNCHANGED notRoutingVars
    \/ \E b \in Batches : expert_choice(b) /\ UNCHANGED notRoutingVars
    \/ ec_set /\ UNCHANGED notRoutingVars
    \/ ec_forward /\ UNCHANGED notRoutingVars
    \/ gen_set /\ UNCHANGED notRoutingVars
    \/ gen_forward /\ UNCHANGED notRoutingVars

SpecRouting == InitRouting /\ [][NextRouting]_vars

-----------------------------------------------------------------------------
(* Specification of the expert library.                                    *)

InitLibrary ==
    /\ \E files \in Repos : hub = [files |-> files, readme |-> Live(files)]
    /\ \E filter \in Filters :
           library = [data |-> [n \in {m \in Live(hub.files) : passes(hub.files, m, filter)}
                                    |-> hub.files[n]],
                      sliced |-> sliced(filter),
                      filter |-> filter]
    /\ libcall = NoLibCall
    /\ ParkedEarlier /\ ParkedRetry /\ ParkedExperts /\ ParkedEval /\ ParkedCreate /\ ParkedRest

notLibraryVars ==
    <<adapterVars, registryVars, task_id_container, routingVars,
      attempt, expertVars, evalVars, built, restVars>>

lib_open == (\E filter \in Filters : open(filter)) /\ UNCHANGED notLibraryVars
lib_getitem == (\E name \in LibNames : getitem(name)) /\ UNCHANGED notLibraryVars
lib_add ==
    /\ \E dump \in ExpertDumps : \E name \in LibNames : \E force \in BOOLEAN :
           add_expert(dump, name, force)
    /\ UNCHANGED notLibraryVars
lib_remove ==
    /\ \E name \in LibNames : \E soft_delete \in BOOLEAN : remove_expert(name, soft_delete)
    /\ UNCHANGED notLibraryVars
lib_unremove == (\E name \in LibNames : unremove_expert(name)) /\ UNCHANGED notLibraryVars

NextLibrary == lib_open \/ lib_getitem \/ lib_add \/ lib_remove \/ lib_unremove

SpecLibrary == InitLibrary /\ [][NextLibrary]_vars

-----------------------------------------------------------------------------
(* Specification of a retried call.                                        *)

InitRetry ==
    /\ attempt = NoAttempt
    /\ ParkedEarlier /\ ParkedLibrary /\ ParkedExperts /\ ParkedEval /\ ParkedCreate /\ ParkedRest

notRetryVars ==
    <<adapterVars, registryVars, task_id_container, routingVars,
      libraryVars, expertVars, evalVars, built, restVars>>

svd_transform_with_retry == (\E args \in RetryArgs : retry_call(args)) /\ UNCHANGED notRetryVars
attempt_returns ==
    (\E result \in Results : retry_attempt_returns(result)) /\ UNCHANGED notRetryVars
attempt_raises ==
    (\E error \in TransientErrors : retry_attempt_raises(error)) /\ UNCHANGED notRetryVars
wait_over == retry_wakes /\ UNCHANGED notRetryVars

NextRetry == svd_transform_with_retry \/ attempt_returns \/ attempt_raises \/ wait_over

SpecRetry == InitRetry /\ [][NextRetry]_vars

-----------------------------------------------------------------------------
(* Specification of a MultiExpertModel and its experts.                    *)

InitExperts ==
    /\ hparams \in [model : ModelNames]
    /\ containers = NoContainers
    /\ selectors = EmptyDict
    /\ excall = NoExpertCall
    /\ module \in {m \in MultiExpertModels : m.experts = <<>> /\ m.routing = "subject"}
    /\ pc = "idle"
    /\ run = NoRun
    /\ ParkedAdapter /\ ParkedRegistry
    /\ ParkedLibrary /\ ParkedRetry /\ ParkedEval /\ ParkedCreate /\ ParkedRest

notExpertVars ==
    <<adapterVars, registryVars, task_id_container, pc, run,
      libraryVars, attempt, evalVars, built, restVars>>

ex_load_expert ==
    /\ \E expert \in LoadedExperts : \E expert_name \in ExpertNames \cup {None} :
           \E action \in ExpertActions : load_expert(expert, expert_name, action)
    /\ UNCHANGED notExpertVars
ex_add_empty_expert ==
    /\ \E name \in ExpertNames : \E modify_layers \in Patterns :
           add_empty_expert(name, modify_layers)
    /\ UNCHANGED notExpertVars
ex_set_selector ==
    /\ \E modifier \in SelectorModifiers : \E selector \in SelectorKinds :
           set_selector(modifier, selector)
    /\ UNCHANGED notExpertVars
ex_get_merged_expert == get_merged_expert /\ UNCHANGED notExpertVars

NextExperts ==
    ex_load_expert \/ ex_add_empty_expert \/ ex_set_selector \/ ex_get_merged_expert

SpecExperts == InitExperts /\ [][NextExperts]_vars

-----------------------------------------------------------------------------
(* Specification of the evaluation epochs of a run.                        *)

InitEval ==
    /\ \E g \in ProcessGroups : \E splits \in [1..MaxEpochs -> Splits] :
           dist = [world_size |-> g.world_size, distributed |-> g.distributed,
                   splits |-> splits, box |-> EmptyDict, left |-> {}]
    /\ ranks = [r \in RanksOf(dist) |-> NewRank]
    /\ scores_file = <<>>
    /\ ParkedEarlier /\ ParkedLibrary /\ ParkedRetry /\ ParkedExperts /\ ParkedCreate /\ ParkedRest

notEvalVars ==
    <<adapterVars, registryVars, task_id_container, routingVars,
      libraryVars, attempt, expertVars, built, restVars>>

ev_begin ==
    /\ \E r \in RanksOf(dist) : \E outputs \in OutputChoices : inference_epoch_end(r, outputs)
    /\ UNCHANGED notEvalVars
ev_enter == (\E r \in RanksOf(dist) : all_gather_enter(r)) /\ UNCHANGED notEvalVars
ev_leave == (\E r \in RanksOf(dist) : all_gather_leave(r)) /\ UNCHANGED notEvalVars
ev_aggregate ==
    /\ \E r \in RanksOf(dist) : \E accuracy \in Accuracies : aggregate(r, accuracy)
    /\ UNCHANGED notEvalVars
ev_return_empty == (\E r \in RanksOf(dist) : return_empty(r)) /\ UNCHANGED notEvalVars

NextEval == ev_begin \/ ev_enter \/ ev_leave \/ ev_aggregate \/ ev_return_empty

SpecEval == InitEval /\ [][NextEval]_vars

-----------------------------------------------------------------------------
(* Specification of the adapter constructors.                              *)

InitCreate ==
    /\ built = NoBuilt
    /\ ParkedEarlier /\ ParkedLibrary /\ ParkedRetry /\ ParkedExperts /\ ParkedEval /\ ParkedRest

notCreateVars ==
    <<adapterVars, registryVars, task_id_container, routingVars,
      libraryVars, attempt, expertVars, evalVars, restVars>>

new_adapter ==
    /\ \E k \in AdapterClasses : \E l \in CtorLayers :
           \E c \in Configs(IF k = "IA3" THEN "LoRA" ELSE k) : construct(k, c, l)
    /\ UNCHANGED notCreateVars

NextCreate == new_adapter

SpecCreate == InitCreate /\ [][NextCreate]_vars

-----------------------------------------------------------------------------
(* Properties of the adapter.                                              *)

Called == fwd.bs # 0

DefaultInit == ~config.lora_warmup /\ ~config.lora_init_b_random

\* x @ lora_a @ lora_b at row b, column o, written out as one double sum
XAB(b, o) ==
    SumTo([r \in 1..config.lora_rank |->
              SumTo([i \in 1..layer.in_features |->
                        At2(fwd.input, layer.in_features, b, i)
                        * At2(lora_a, config.lora_rank, i, r)],
                    layer.in_features)
              * At2(lora_b, layer.out_features, r, o)],
          config.lora_rank)

\* C2: an adapter built without warm-up and without a random up-projection
\* has lora_b all zeros, and every forward call on it, in training mode or
\* in evaluation mode, returns exactly the wrapped layer's output.
C2_NoOpAtInit ==
    DefaultInit =>
        /\ \A i \in DOMAIN lora_b : lora_b[i] = 0
        /\ Called =>
              \A p \in DOMAIN fwd.out :
                  fwd.out[p] = RInt(foward_layer(fwd.input, fwd.bs)[p])

C2_Witness ==
    /\ DefaultInit /\ Called /\ ~fwd.training /\ training_steps > 0
    /\ fwd.bs = MaxBatch
    /\ \E i \in DOMAIN fwd.input : fwd.input[i] > 0
    /\ \E i \in DOMAIN lora_a : lora_a[i] > 0

\* C3: with warm-up enabled the gate never decreases from one forward call
\* to the next, it is 1 once 10,000 training-mode calls have been made, and a
\* step taken in evaluation mode changes neither the step counter nor the
\* gate; for LoRA and for SkilledLoRA.
C3_WarmupMonotone ==
    [][ /\ (Called /\ Called') => RLeq(fwd.gate, fwd'.gate)
        /\ (Called' /\ fwd'.train_calls >= WARMUP_STEPS) => fwd'.gate = RInt(1)
        /\ ~training =>
              /\ training_steps' = training_steps
              /\ Called => fwd'.gate = fwd.gate ]_vars

C3_Witness ==
    /\ kind = "SkilledLoRA" /\ config.lora_warmup
    /\ Called /\ ~fwd.training
    /\ fwd.train_calls > WARMUP_STEPS

\* C4: with warm-up disabled a LoRA forward returns, at every row b and
\* column o, base_layer(x) + (alpha / rank) * (x @ lora_a @ lora_b); with
\* rank 2 and alpha 16 the factor is 8.
C4_LoRAFormula ==
    (kind = "LoRA" /\ ~config.lora_warmup /\ Called) =>
        \A b \in 1..fwd.bs : \A o \in 1..layer.out_features :
            LET out == At2(fwd.out, layer.out_features, b, o)
                base == At2(foward_layer(fwd.input, fwd.bs), layer.out_features, b, o)
            IN /\ config.lora_rank * (out[1] - base * out[2])
                    = config.lora_alpha * XAB(b, o) * out[2]
               /\ (config.lora_rank = 2 /\ config.lora_alpha = 16) =>
                      out = RInt(base + 8 * XAB(b, o))

C4_Witness ==
    /\ kind = "LoRA" /\ ~config.lora_warmup /\ Called
    /\ config.lora_rank = 2 /\ config.lora_alpha = 16
    /\ \E p \in DOMAIN fwd.out :
           fwd.out[p] # RInt(foward_layer(fwd.input, fwd.bs)[p])

\* the one-hot distribution of an index vector w: shape (bs, n_splits, n_skills)
OneHot(w, bs) ==
    [ndim |-> 3,
     w |-> [p \in 1..(bs * config.n_splits * config.n_skills) |->
               IF w[Coord(p, bs, config.n_splits * config.n_skills)]
                    = Coord(p, config.n_skills, 1) - 1
               THEN 1 ELSE 0]]

\* C5: a SkilledLoRA forward routed by a 1-D index vector w returns, for
\* every example, what routing by the one-hot distribution of w returns.
C5_IndexMatchesOneHot ==
    (kind = "SkilledLoRA" /\ Called /\ fwd.weights.ndim = 1) =>
        fwd.out = SkilledLoRA_forward_out(fwd.input, fwd.bs,
                                          OneHot(fwd.weights.w, fwd.bs),
                                          training_steps)

-----------------------------------------------------------------------------
(* Properties of the modifier registry.                                    *)

Registered == call.op = "register_modifier"
Modified == call.op = "modify_transformer"

\* C6: registering under a name that is already a key of MODIFIERS raises,
\* and leaves MODIFIERS and CONFIGS_TO_MODIFIERS as they were.
C6_DuplicateRejected ==
    [][ (Registered' /\ call'.name \in DOMAIN MODIFIERS) =>
            /\ call'.raised = "ValueError"
            /\ MODIFIERS' = MODIFIERS
            /\ CONFIGS_TO_MODIFIERS' = CONFIGS_TO_MODIFIERS ]_vars

C6_Witness ==
    /\ Registered /\ call.raised = "ValueError"
    /\ MODIFIERS[call.name] # call.klass
    /\ call.config_cls # None
    /\ call.config_cls \notin DOMAIN CONFIGS_TO_MODIFIERS

\* the layers the last modify_transformer call's pattern does not match
Unmatched == Paths \ call.config.modify_layers

\* C7 as stated: the name comes from the explicit argument or else from the
\* lookup by configuration type, and when neither gives a name the call
\* raises and returns no model.
C7_RaisesWhenUnresolved ==
    (Modified /\ ~Truthy(call.model_modifier)
              /\ call.config.type \notin DOMAIN CONFIGS_TO_MODIFIERS) =>
        (call.raised # None /\ call.returned = None)

\* C7 as amended: the name is the explicit argument if truthy, else the
\* configuration's model_modifier attribute if present and truthy, else the
\* entry of CONFIGS_TO_MODIFIERS for the configuration's type; when none of
\* the three gives a name the call warns, applies no modifier, raises nothing
\* and returns the transformer.
C7_ResolutionOrder ==
    Modified =>
        LET arg == call.model_modifier
            attr == call.config.model_modifier
            byType == IF call.config.type \in DOMAIN CONFIGS_TO_MODIFIERS
                      THEN CONFIGS_TO_MODIFIERS[call.config.type] ELSE None
            expected == IF arg \in Names THEN arg
                        ELSE IF attr \in Names THEN attr
                        ELSE byType
        IN /\ call.name = expected
           /\ expected = None =>
                 /\ call.warned /\ call.factory = None
                 /\ call.raised = None /\ call.returned = "transformer"

C7_Witness ==
    /\ Modified /\ call.name = None /\ call.warned
    /\ call.model_modifier = "" /\ call.config.model_modifier = None
    /\ "lora" \in DOMAIN MODIFIERS

\* C8: when the resolved name is not a key of MODIFIERS the call raises,
\* no modifier class is invoked (no layer becomes wrapped), and nothing is
\* returned.
C8_UnknownNameRaises ==
    [][ (Modified' /\ call'.name # None /\ call'.name \notin DOMAIN MODIFIERS) =>
            /\ call'.raised = "ValueError"
            /\ call'.returned = None
            /\ call'.factory = None
            /\ \A l \in Paths : transformer'[l].wrapped = transformer[l].wrapped ]_vars

C8_Witness ==
    /\ Modified /\ call.raised = "ValueError"
    /\ call.name \notin DOMAIN MODIFIERS
    /\ DOMAIN MODIFIERS # {}
    /\ \E l \in call.config.modify_layers : ~transformer[l].wrapped

\* C9 as stated: a layer the pattern does not match is the same after the
\* call as before it, requires_grad included.
C9_UnmatchedUntouched ==
    [][ Modified' => \A l \in Paths \ call'.config.modify_layers :
                         transformer'[l] = transformer[l] ]_vars

\* C9 as amended: a layer the pattern does not match is not wrapped by the
\* call (it is wrapped after it only if it was before), but the
\* requires_grad flag of its parameters is not preserved: the call
\* overwrites it with the one value it gives the base parameters of every
\* layer of the model, matched or not.
C9_UnmatchedKeptButReflagged ==
    [][ Modified' => \A l \in Paths \ call'.config.modify_layers :
            /\ transformer'[l].wrapped = transformer[l].wrapped
            /\ \A m \in Paths :
                   transformer'[l].requires_grad = transformer'[m].requires_grad ]_vars

C9_Witness ==
    /\ Modified /\ call.factory # None
    /\ \E l \in Unmatched : ~transformer[l].wrapped /\ ~transformer[l].requires_grad
    /\ \E l \in call.config.modify_layers :
           transformer[l].wrapped /\ ~transformer[l].requires_grad

\* C10: whenever modify_transformer applies a modifier, every base parameter
\* is frozen; the base parameters are all trainable only when no modifier
\* was applied.
C10_FrozenWhenModified ==
    (Modified /\ call.factory # None) =>
        \A l \in Paths : ~transformer[l].requires_grad

-----------------------------------------------------------------------------
(* Properties of the routing context.                                      *)

\* C1: every forward pass of the model on a batch runs with routing_infos
\* built from that batch, and between two batches (no handler running) the
\* container holds no routing context: routing_infos is None or was never
\* set.
C1_ContextScopedToBatch ==
    /\ run.forward.by = "model" =>
           (task_id_container.present => run.forward.ctx.batch = run.forward.batch)
    /\ pc = "idle" => task_id_container.routing_infos \in {NoneInfo, Unset}

-----------------------------------------------------------------------------
(* Properties of the expert library.                                       *)

Length(lib) == Cardinality(DOMAIN lib.data)

\* C11: add_expert(expert, name) for a name the library already holds as a
\* non-deleted entry raises, and leaves the library, the repository behind
\* it and the readme as they were, with nothing uploaded.
C11_DuplicateAddRejected ==
    [][ (libcall'.op = "add_expert" /\ ~libcall'.force
             /\ libcall'.name \in DOMAIN library.data) =>
            /\ libcall'.raised = "ValueError"
            /\ library' = library
            /\ hub' = hub
            /\ libcall'.uploads = NoUploads ]_vars

C11_Witness ==
    /\ libcall.op = "add_expert" /\ libcall.raised = "ValueError"
    /\ libcall.dump # library.data[libcall.name]
    /\ Length(library) = 2

\* C12: a soft remove of a held name takes it out of the data and lowers the
\* length by one; an unremove that follows restores the entry as it was,
\* and the length; after a non-soft remove the unremove raises and restores
\* nothing.
C12_SoftDeleteReversible ==
    [][ /\ (libcall'.op = "remove_expert" /\ libcall'.soft_delete
                /\ libcall'.name \in DOMAIN library.data) =>
               /\ libcall'.name \notin DOMAIN library'.data
               /\ Length(library') = Length(library) - 1
        /\ (libcall.op = "remove_expert" /\ libcall.raised = None
                /\ libcall'.op = "unremove_expert" /\ libcall'.name = libcall.name) =>
               IF libcall.soft_delete
               THEN /\ libcall'.raised = None
                    /\ libcall'.name \in DOMAIN library'.data
                    /\ library'.data[libcall'.name] = libcall.removed
                    /\ Length(library') = libcall.len_before
               ELSE /\ libcall'.raised # None
                    /\ libcall'.name \notin DOMAIN library'.data
                    /\ library' = library ]_vars

C12_Witness ==
    /\ libcall.op = "unremove_expert" /\ libcall.raised = None
    /\ libcall.len_before = 1 /\ Length(library) = 2
    /\ libcall.returned = library.data[libcall.name]

\* C13: a successful add_expert of a new name has uploaded the weights, the
\* metadata and the readme once each, the repository holds the entry and
\* the length is one more; a successful soft remove has uploaded the
\* metadata (with the deletion flag) and the readme once each.
C13_PersistBeforeSuccess ==
    [][ /\ (libcall'.op = "add_expert" /\ libcall'.raised = None
                /\ libcall'.name \notin DOMAIN library.data) =>
               /\ libcall'.uploads = [weights |-> 1, metadata |-> 1, readme |-> 1]
               /\ Length(library') = Length(library) + 1
               /\ libcall'.name \in DOMAIN hub'.files
               /\ hub'.files[libcall'.name] = libcall'.dump
               /\ libcall'.name \in hub'.readme
        /\ (libcall'.op = "remove_expert" /\ libcall'.soft_delete
                /\ libcall'.name \in DOMAIN library.data) =>
               /\ libcall'.raised = None
               /\ libcall'.uploads.metadata = 1
               /\ libcall'.uploads.readme = 1
               /\ hub'.files[libcall'.name].expert_deleted
               /\ libcall'.name \notin hub'.readme ]_vars

C13_Witness ==
    /\ libcall.op = "add_expert" /\ libcall.raised = None
    /\ libcall.len_before = 1 /\ Length(library) = 2
    /\ hub.files[libcall.name] = libcall.dump

\* C14: a library opened with a filter is flagged as sliced, one opened
\* without is not; it holds exactly the non-deleted entries the filter lets
\* through, as they are stored; looking up a hidden name raises; opening
\* changes nothing in the repository.
C14_FilteredView ==
    /\ [](/\ library.sliced <=> library.filter # NoFilter
          /\ library.sliced =>
                 \A n \in Live(hub.files) :
                     LET shown ==
                             /\ library.filter.model_name # None =>
                                    hub.files[n].model = library.filter.model_name
                             /\ n \notin library.filter.exclude_selection
                     IN IF shown
                        THEN n \in DOMAIN library.data /\ library.data[n] = hub.files[n]
                        ELSE n \notin DOMAIN library.data
          /\ (libcall.op = "getitem" /\ libcall.name \notin DOMAIN library.data) =>
                 libcall.raised = "ValueError")
    /\ [][libcall'.op = "open" => hub' = hub]_vars

C14_Witness ==
    /\ libcall.op = "getitem" /\ libcall.raised = "ValueError"
    /\ library.sliced /\ library.filter.model_name # None
    /\ libcall.name \in Live(hub.files)
    /\ Length(library) = 1


-----------------------------------------------------------------------------
(* Properties of the MultiExpertModel.                                     *)

\* C15: load_expert of an expert trained on another base model raises
\* without calling add_expert_to_transformer, and leaves the live model,
\* its selectors and self.experts as they were.
C15_IncompatibleFailsFast ==
    [][ (excall'.op = "load_expert" /\ excall'.model # hparams.model) =>
            /\ excall'.raised = "ValueError"
            /\ ~excall'.added
            /\ containers' = containers
            /\ selectors' = selectors
            /\ module'.experts = module.experts ]_vars

C15_Witness ==
    /\ excall.op = "load_expert" /\ excall.raised = "ValueError" /\ ~excall.added
    /\ excall.model # hparams.model
    /\ excall.action = "route"
    /\ module.experts # <<>>

\* C16: get_merged_expert returns, under Poly selectors, an expert with one
\* weight for each LoRA parameter of every wrapped layer; once a selector
\* routes by task name it raises and returns nothing.
C16_MergeOnlyUnderPoly ==
    excall.op = "get_merged_expert" =>
        IF containers.selector_config["lora"] = "PolySelector"
        THEN /\ excall.raised = None
             /\ \A l \in WrappedLayers(containers) : \A q \in LoRAParams :
                    <<l, q>> \in excall.weights
             /\ Cardinality(excall.weights)
                    = Cardinality(LoRAParams) * Cardinality(WrappedLayers(containers))
        ELSE /\ excall.raised = "NotImplementedError"
             /\ excall.weights = {}

C16_Witness ==
    /\ excall.op = "get_merged_expert" /\ excall.raised = "NotImplementedError"
    /\ DOMAIN containers.experts = ExpertNames
    /\ \E l \in WrappedLayers(containers) : selectors["lora"][l] = "TaskNameSelector"

\* C17: a model on which set_selector was never called lists no selectors;
\* right after set_selector(modifier, config) the modifier's selectors are
\* one per wrapped layer, all of the configured kind, whatever was
\* configured before.
C17_OneSelectorPerContainer ==
    /\ [](DOMAIN containers.selector_config = {} => DOMAIN selectors = {})
    /\ [][ excall'.op = "set_selector" =>
               /\ excall'.name \in DOMAIN selectors'
               /\ DOMAIN selectors'[excall'.name] = WrappedLayers(containers')
               /\ \A l \in WrappedLayers(containers') :
                      selectors'[excall'.name][l] = excall'.action ]_vars

C17_Witness ==
    /\ excall.op = "set_selector" /\ excall.action = "TaskNameSelector"
    /\ excall.before = "PolySelector"
    /\ Cardinality(DOMAIN selectors["lora"]) = Cardinality(Paths)
    /\ DOMAIN containers.experts = ExpertNames


-----------------------------------------------------------------------------
(* Properties of the evaluation epochs.                                    *)

\* the rank has returned from inference_epoch_end at least once
Returned(r) == ranks[r].pc = "idle" /\ ranks[r].epoch > 0

\* C18: in distributed mode a rank goes through one all-gather in each
\* evaluation epoch, and is past the all-gather of an epoch only when every
\* rank has handed in its outputs for it; only rank zero (or the single
\* process) aggregates, appends to the scores file and sets
\* best_val_result / test_results; every other rank returns empty metrics.
C18_RankZeroAggregates ==
    /\ \A r \in RanksOf(dist) :
           LET me == ranks[r]
           IN /\ IF Distributed(dist)
                 THEN /\ me.gathers <= me.epoch
                      /\ me.pc \in {"idle", "decide"} => me.gathers = me.epoch
                      /\ \A q \in RanksOf(dist) : ranks[q].entered >= me.gathers
                 ELSE me.gathers = 0
              /\ r # 0 =>
                     /\ me.aggregated = 0
                     /\ me.best_val_result = NoResult
                     /\ me.test_results = <<>>
                     /\ Returned(r) => me.metrics = EmptyMetrics
              /\ (r = 0 /\ Returned(r) /\ me.raised = None) =>
                     me.metrics.kind = "metrics"
    /\ \A i \in 1..Len(scores_file) : scores_file[i].rank = 0
    /\ Len(scores_file) = ranks[0].aggregated

C18_Witness ==
    /\ Distributed(dist) /\ dist.world_size = 2
    /\ Returned(0) /\ Returned(1)
    /\ ranks[1].outputs # <<>>
    /\ ranks[1].metrics = EmptyMetrics
    /\ ranks[0].metrics.kind = "metrics" /\ ranks[0].metrics.n = 2
    /\ Len(scores_file) = 2


-----------------------------------------------------------------------------
(* Properties of a retried call.                                           *)

\* C19: a call wrapped with retry(max_retries=5, wait_seconds=60) makes at
\* most five attempts; an attempt that returns ends the call with its
\* result, every earlier attempt having raised; when all five attempts have
\* raised the call raises to its caller; it is never between attempts after
\* the fifth.
C19_BoundedRetry ==
    LET n == Len(attempt.outcomes)
    IN /\ n <= MAX_RETRIES
       /\ attempt.state \in {"calling", "waiting"} => n < MAX_RETRIES
       /\ attempt.state = "returned" =>
              /\ attempt.result \in Results /\ attempt.raised = None
              /\ attempt.outcomes[n] = "returned"
              /\ \A i \in 1..(n - 1) : attempt.outcomes[i] = "raised"
       /\ attempt.state = "failed" =>
              /\ n = MAX_RETRIES
              /\ attempt.raised # None /\ attempt.result = None
              /\ \A i \in 1..n : attempt.outcomes[i] = "raised"

C19_Witness ==
    /\ attempt.state = "failed"
    /\ Len(attempt.outcomes) = MAX_RETRIES
    /\ attempt.raised # None

-----------------------------------------------------------------------------
(* Properties of the adapter constructors.                                 *)

\* C20: a LoRA, SkilledLoRA or IA3 constructor handed a layer that is not
\* an nn.Linear raises, with no forward function bound, and returns no
\* object; an object that is returned has its forward function.
C20_UnsupportedLayerRejected ==
    built.cls # None =>
        /\ built.layer.cls # "Linear" =>
               /\ built.raised # None
               /\ ~built.returned
               /\ built.forward_fn \in {"unset", None}
        /\ built.returned =>
               /\ built.forward_fn # None /\ built.raised = None
               /\ built.cls # "IA3" => built.forward_fn = "forward_linear_"

C20_Witness ==
    /\ built.cls = "SkilledLoRA" /\ built.raised = "NotImplementedError"
    /\ built.layer.cls = "Custom" /\ built.layer.has_features
    /\ built.forward_fn = None /\ ~built.returned

-----------------------------------------------------------------------------
(* Specification of the side-table of a model: modify_transformer calls    *)
(* interleaved with the statements that write the routing context.         *)

\* self.model.task_id_container["routing_infos"] = RoutingInfo.from_batch(batch)
set_routing_infos ==
    /\ task_id_container.present
    /\ \E batch \in Batches : SetRoutingInfos(RoutingInfo(batch, TaskOf(batch)))
    /\ UNCHANGED <<registryVars, notRegistryVars>>

\* self.model.task_id_container["routing_infos"] = None
clear_routing_infos ==
    /\ task_id_container.present
    /\ SetRoutingInfos(NoneInfo)
    /\ UNCHANGED <<registryVars, notRegistryVars>>

NextSideTable == register \/ modify \/ set_routing_infos \/ clear_routing_infos

SpecSideTable == InitRegistry /\ [][NextSideTable]_vars

\* C21: a modify_transformer call on a model that already has a
\* task_id_container keeps that container and the routing context it holds.
C21_SideTablePersists ==
    [][(modify /\ task_id_container.present)
           => task_id_container' = task_id_container]_vars

-----------------------------------------------------------------------------
(* expert_model.py: MultiExpertModel.load_from_graph_string, and the       *)
(* specification of a MultiExpertModel that loads experts between its      *)
(* generate / expert_choice calls.                                         *)

\* graph.create_modules(base_hparams=self.hparams): a dict, so its module
\* names are distinct, gone through in insertion order
Graphs ==
    {<<>>} \cup {<<n>> : n \in ExpertNames}
           \cup {<<n, m>> : <<n, m>> \in {p \in ExpertNames \X ExpertNames : p[1] # p[2]}}

\* load_from_graph_string, lines 72-80: one round of the loop, on the
\* containers and the list self.experts reached so far
add_module_unlisted(st, module_name, modify_layers) ==
    IF add_expert_to_transformer_raises(st.containers, module_name, "route")
    THEN [st EXCEPT !.raised = "ValueError"]
    ELSE [st EXCEPT !.containers =
                        add_expert_to_transformer(@, module_name,
                            [model |-> hparams.model, modify_layers |-> modify_layers],
                            "route")]

add_module(st, module_name, modify_layers) ==
    IF add_expert_to_transformer_raises(st.containers, module_name, "route")
    THEN [st EXCEPT !.raised = "ValueError"]
    ELSE [st EXCEPT !.containers =
                        add_expert_to_transformer(@, module_name,
                            [model |-> hparams.model, modify_layers |-> modify_layers],
                            "route"),
                    !.experts = Append(@, module_name)]

\* load_from_graph_string, lines 69-80: the loop, left at the first raise
RECURSIVE create_modules_loop(_, _, _)
create_modules_loop(st, graph, modify_layers) ==
    IF graph = <<>> \/ st.raised # None
    THEN st
    ELSE create_modules_loop(add_module(st, Head(graph), modify_layers),
                             Tail(graph), modify_layers)

\* MultiExpertModel.load_from_graph_string(s)
load_from_graph_string(graph, modify_layers) ==
    /\ Cardinality(DOMAIN containers.experts) + Cardinality(containers.merged)
           + Len(graph) <= MaxExperts
    /\ LET st == create_modules_loop([containers |-> containers,
                                      experts |-> module.experts,
                                      raised |-> None], graph, modify_layers)
       IN /\ containers' = st.containers
          /\ selectors' = selectors_of(st.containers)
          /\ module' = [module EXCEPT !.experts = st.experts]
          /\ excall' = [NoExpertCall EXCEPT !.op = "load_from_graph_string",
                                            !.raised = st.raised,
                                            !.added = (graph # <<>>)]
    /\ UNCHANGED hparams

InitRoutable ==
    /\ hparams \in [model : ModelNames]
    /\ containers = NoContainers
    /\ selectors = EmptyDict
    /\ excall = NoExpertCall
    /\ module \in {m \in MultiExpertModels : m.experts = <<>>}
    /\ task_id_container = EmptyContainer
    /\ pc = "idle"
    /\ run = NoRun
    /\ InitRegistries
    /\ transformer = [l \in Paths |-> [requires_grad |-> TRUE, wrapped |-> FALSE,
                                       adapter_requires_grad |-> FALSE]]
    /\ ParkedAdapter
    /\ ParkedLibrary /\ ParkedRetry /\ ParkedEval /\ ParkedCreate /\ ParkedRest

rt_load_expert == pc = "idle" /\ ex_load_expert
rt_load_from_graph_string ==
    /\ pc = "idle"
    /\ \E graph \in Graphs : \E modify_layers \in Patterns :
           load_from_graph_string(graph, modify_layers)
    /\ UNCHANGED notExpertVars
rt_generate == \E b \in Batches : generate(b) /\ UNCHANGED notRoutingVars
rt_expert_choice == \E b \in Batches : expert_choice(b) /\ UNCHANGED notRoutingVars
rt_ec_set == ec_set /\ UNCHANGED notRoutingVars
rt_ec_forward == ec_forward /\ UNCHANGED notRoutingVars
rt_gen_set == gen_set /\ UNCHANGED notRoutingVars
rt_gen_forward == gen_forward /\ UNCHANGED notRoutingVars

NextRoutable ==
    \/ rt_load_expert
    \/ rt_load_from_graph_string
    \/ rt_generate
    \/ rt_expert_choice
    \/ rt_ec_set
    \/ rt_ec_forward
    \/ rt_gen_set
    \/ rt_gen_forward

SpecRoutable == InitRoutable /\ [][NextRoutable]_vars

\* the names in a list
Listed(experts) == {experts[i] : i \in DOMAIN experts}

\* C22: self.experts lists, in load order and once each, exactly the names
\* attached with an action other than "merge": every step appends to it the
\* names newly routed and nothing else, a "merge" load leaves it as it is,
\* and the expert generate / expert_choice route a batch to is one of them.
C22_RoutableExperts ==
    /\ [](/\ Listed(module.experts) = DOMAIN containers.experts
          /\ Len(module.experts) = Cardinality(DOMAIN containers.experts)
          /\ (pc = "gen_set" /\ module.routing \in {"auto", "first", "random"})
                 => run.task \in DOMAIN containers.experts
          /\ pc = "ec_forward"
                 => task_id_container.routing_infos.task \in DOMAIN containers.experts)
    /\ [][LET old == module.experts
              new == module.experts'
              routed == DOMAIN containers'.experts \ DOMAIN containers.experts
          IN /\ Len(new) >= Len(old)
             /\ SubSeq(new, 1, Len(old)) = old
             /\ {new[i] : i \in (Len(old) + 1)..Len(new)} = routed
             /\ Len(new) - Len(old) = Cardinality(routed)
             /\ (containers'.merged # containers.merged) => new = old]_vars

C22_Witness ==
    /\ containers.merged # {}
    /\ Len(module.experts) = 1
    /\ module.experts[1] \notin containers.merged
    /\ module.routing = "first"
    /\ pc = "gen_set" /\ run.task = module.experts[1]

-----------------------------------------------------------------------------
(* Specification of the de-duplication at epoch end.                       *)

InitDedup ==
    /\ \E n \in 1..MaxOutputs : \E outputs \in [1..n -> BatchOutputs] :
           dedup = [NoDedup EXCEPT !.outputs = outputs]
    /\ saver = NoSaver /\ valcb = NoValCallback /\ rougecb = NoRougeCallback
    /\ naming = NoNaming /\ interval = NoInterval
    /\ ParkedEarlier
    /\ ParkedLibrary /\ ParkedRetry /\ ParkedExperts /\ ParkedEval /\ ParkedCreate

notDedupVars ==
    <<adapterVars, registryVars, task_id_container, routingVars,
      libraryVars, attempt, expertVars, evalVars, built,
      saver, valcb, rougecb, naming, interval>>

dd_accumulate_and_filter == accumulate_and_filter /\ UNCHANGED notDedupVars

NextDedup == dd_accumulate_and_filter

SpecDedup == InitDedup /\ [][NextDedup]_vars

\* the position of the first occurrence of example id x in a list
FirstAt(idx, x) == CHOOSE i \in 1..Len(idx) : idx[i] = x /\ \A j \in 1..(i - 1) : idx[j] # x

\* C23: after the filter every example id of the gathered outputs is in
\* accumulated["idx"] once, in the order of the first occurrences, and
\* every other list has the length of "idx" and holds, position by
\* position, the value gathered with that first occurrence.
C23_FirstOccurrenceKept ==
    dedup.done =>
        LET raw == dedup.raw
            acc == dedup.accumulated
            n == Len(acc["idx"])
        IN /\ \A k \in DOMAIN acc : Len(acc[k]) = n
           /\ {acc["idx"][i] : i \in 1..n} = {raw["idx"][i] : i \in 1..Len(raw["idx"])}
           /\ \A i, j \in 1..n : i # j => acc["idx"][i] # acc["idx"][j]
           /\ \A i, j \in 1..n :
                  i < j => FirstAt(raw["idx"], acc["idx"][i]) < FirstAt(raw["idx"], acc["idx"][j])
           /\ \A k \in DOMAIN acc : \A i \in 1..n :
                  acc[k][i] = raw[k][FirstAt(raw["idx"], acc["idx"][i])]

C23_Witness ==
    /\ dedup.done
    /\ Len(dedup.raw["idx"]) = 3
    /\ Len(dedup.accumulated["idx"]) = 2
    /\ dedup.raw["idx"][1] = dedup.raw["idx"][3]
    /\ dedup.raw["prediction"][1] # dedup.raw["prediction"][3]

-----------------------------------------------------------------------------
(* Properties of training_step and its loss plugins.                       *)

\* C24: in training_step no plugin.compute_loss(self.model, batch) call (and
\* no pass through the model at all) runs while routing_infos is None or
\* unset.
C24_PluginsRunInContext ==
    /\ pc = "ts_plugin" => task_id_container.routing_infos \notin {NoneInfo, Unset}
    /\ (run.handler = "training_step" /\ run.forward.by # None)
           => run.forward.ctx \notin {NoneInfo, Unset}

-----------------------------------------------------------------------------
(* Properties of the results kept across evaluation epochs.                *)

\* the lines of the scores files that come from epochs of one split
EpochsOf(split) == SelectSeq(scores_file, LAMBDA e : e.metrics.split = split)

\* C25: on the aggregating rank best_val_result is None before the first
\* validation epoch and afterwards the metrics of the earliest validation
\* epoch among those with the highest accuracy so far; its accuracy never
\* decreases; a test epoch leaves it as it is and appends its metrics, and
\* nothing else, to test_results.
C25_BestValResult ==
    /\ [](LET val == EpochsOf("val")
              test == EpochsOf("test")
              me == ranks[0]
          IN /\ val = <<>> => me.best_val_result = NoResult
             /\ val # <<>> =>
                    \E i \in 1..Len(val) :
                        /\ me.best_val_result = val[i].metrics
                        /\ \A j \in 1..Len(val) :
                               /\ val[j].metrics.accuracy <= val[i].metrics.accuracy
                               /\ j < i => val[j].metrics.accuracy < val[i].metrics.accuracy
             /\ me.test_results = [i \in 1..Len(test) |-> test[i].metrics])
    /\ [][LET old == ranks[0].best_val_result
              new == ranks'[0].best_val_result
          IN /\ old # NoResult => new # NoResult /\ old.accuracy <= new.accuracy
             /\ (ranks'[0].aggregated # ranks[0].aggregated /\ ranks[0].split = "test") =>
                    /\ new = old
                    /\ Len(ranks'[0].test_results) = Len(ranks[0].test_results) + 1]_vars

C25_Witness ==
    /\ Len(EpochsOf("val")) = 2
    /\ EpochsOf("val")[1].metrics.accuracy = EpochsOf("val")[2].metrics.accuracy
    /\ ranks[0].best_val_result = EpochsOf("val")[1].metrics
    /\ ranks[0].best_val_result # EpochsOf("val")[2].metrics

-----------------------------------------------------------------------------
(* Specification of the checkpoints of a training run.                     *)

InitSaver ==
    /\ \E save_every \in SaveEvery : \E start \in StartSteps :
           saver = [NoSaver EXCEPT !.save_every = save_every, !.start = start,
                                   !.global_step = start]
    /\ dedup = NoDedup /\ valcb = NoValCallback /\ rougecb = NoRougeCallback
    /\ naming = NoNaming /\ interval = NoInterval
    /\ ParkedEarlier
    /\ ParkedLibrary /\ ParkedRetry /\ ParkedExperts /\ ParkedEval /\ ParkedCreate

notSaverVars ==
    <<adapterVars, registryVars, task_id_container, routingVars,
      libraryVars, attempt, expertVars, evalVars, built,
      dedup, valcb, rougecb, naming, interval>>

sv_training_step == (\E saved \in BOOLEAN : training_step_saves(saved)) /\ UNCHANGED notSaverVars
sv_save_model ==
    /\ \E finish \in BOOLEAN : \E saved \in BOOLEAN : call_save_model(finish, saved)
    /\ UNCHANGED notSaverVars
sv_optimizer_step == optimizer_step /\ UNCHANGED notSaverVars

NextSaver == sv_training_step \/ sv_save_model \/ sv_optimizer_step

SpecSaver == InitSaver /\ [][NextSaver]_vars

\* C26: no two checkpoints written by save_model(finish=False) are of one
\* global step, and such a call at the step last saved writes nothing;
\* save_model(finish=True) writes "finish.pt" whenever the trainer can write
\* it; training_step writes only at a positive multiple of save_every or at
\* step 25,000, and then the checkpoint of that step.
C26_CheckpointOncePerStep ==
    /\ [](\A i, j \in 1..Len(saver.writes) :
              (i < j /\ saver.writes[i].name = "global_step.pt"
                     /\ saver.writes[j].name = "global_step.pt")
                  => saver.writes[i].step < saver.writes[j].step)
    /\ [][LET c == saver'.call
              wrote == saver'.writes # saver.writes
          IN /\ wrote => saver'.writes = Append(saver.writes, c.model_fname)
             /\ (c.op # "none" /\ ~c.finish
                     /\ saver._last_global_step_saved = saver.global_step) => ~wrote
             /\ (c.op = "save_model" /\ c.finish) =>
                    /\ c.model_fname = Checkpoint("finish.pt", 0)
                    /\ wrote <=> c.raised = None
             /\ (c.op = "training_step" /\ wrote) =>
                    /\ c.model_fname = Checkpoint("global_step.pt", saver.global_step)
                    /\ \/ saver.global_step = 25000
                       \/ /\ saver.global_step > 0
                          /\ saver.save_every # None
                          /\ \E k \in 1..saver.global_step :
                                 k * StepsOf(saver.save_every) = saver.global_step]_vars

C26_Witness ==
    /\ saver.call.op = "training_step"
    /\ saver.call.model_fname = NoCheckpoint
    /\ saver.global_step = 25000
    /\ saver.save_every = None
    /\ saver.writes = <<Checkpoint("global_step.pt", 25000)>>

-----------------------------------------------------------------------------
(* Specification of a ValLossCheckpointCallback over validation epochs.    *)

InitValCallback ==
    /\ valcb = NoValCallback
    /\ dedup = NoDedup /\ saver = NoSaver /\ rougecb = NoRougeCallback
    /\ naming = NoNaming /\ interval = NoInterval
    /\ ParkedEarlier
    /\ ParkedLibrary /\ ParkedRetry /\ ParkedExperts /\ ParkedEval /\ ParkedCreate

notValCallbackVars ==
    <<adapterVars, registryVars, task_id_container, routingVars,
      libraryVars, attempt, expertVars, evalVars, built,
      dedup, saver, rougecb, naming, interval>>

vc_on_validation_epoch_end ==
    /\ \E result \in Metrics : \E saved \in BOOLEAN :
           val_on_validation_epoch_end(result, saved)
    /\ UNCHANGED notValCallbackVars

NextValCallback == vc_on_validation_epoch_end

SpecValCallback == InitValCallback /\ [][NextValCallback]_vars

\* the least of a non-empty set of metrics
Least(S) == CHOOSE x \in S : \A y \in S : x <= y

\* C27: after any on_validation_epoch_end calls best_val_loss is the least
\* result seen, best_model_path names an existing checkpoint of that
\* result, and that checkpoint is the only file of the callback, also when
\* trainer.save_checkpoint has failed.
C27_BestCheckpointExists ==
    valcb.seen # {} =>
        /\ valcb.best_val_loss = Least(valcb.seen)
        /\ valcb._prev_checkpoint = fmt_004f(valcb.best_val_loss)
        /\ valcb.files = {valcb._prev_checkpoint}

-----------------------------------------------------------------------------
(* Specification of a RougeLCallback.                                      *)

InitRougeCallback ==
    /\ \E checkpoint_oracle \in BOOLEAN :
           rougecb = [NoRougeCallback EXCEPT !.do_checkpoint = checkpoint_oracle]
    /\ dedup = NoDedup /\ saver = NoSaver /\ valcb = NoValCallback
    /\ naming = NoNaming /\ interval = NoInterval
    /\ ParkedEarlier
    /\ ParkedLibrary /\ ParkedRetry /\ ParkedExperts /\ ParkedEval /\ ParkedCreate

notRougeCallbackVars ==
    <<adapterVars, registryVars, task_id_container, routingVars,
      libraryVars, attempt, expertVars, evalVars, built,
      dedup, saver, valcb, naming, interval>>

rc_best_loss ==
    /\ \E value \in Metrics : rougecb' = set_best_loss(rougecb, value)
    /\ UNCHANGED notRougeCallbackVars
rc_maybe_checkpoint_now ==
    /\ \E saved \in BOOLEAN : rougecb' = maybe_checkpoint_now(rougecb, saved)
    /\ UNCHANGED notRougeCallbackVars
rc_on_before_optimizer_step ==
    /\ \E metrics \in Metrics : \E saved \in BOOLEAN :
           rougecb' = rouge_on_before_optimizer_step(rougecb, metrics, saved)
    /\ UNCHANGED notRougeCallbackVars

NextRougeCallback ==
    rc_best_loss \/ rc_maybe_checkpoint_now \/ rc_on_before_optimizer_step

SpecRougeCallback == InitRougeCallback /\ [][NextRougeCallback]_vars

\* the greatest of a non-empty set of metrics
Greatest(S) == CHOOSE x \in S : \A y \in S : y <= x

\* C28: _best_rouge is the greatest value assigned so far; a checkpoint is
\* written only with checkpointing enabled and a value assigned since the
\* last maybe_checkpoint_now that was the first or above every earlier one,
\* and it is the checkpoint of the best value; a checkpoint is removed only
\* when it is the previous one and the new one has been saved under another
\* path; _checkpoint_now is False after maybe_checkpoint_now, whether the
\* save succeeded or not.
C28_RougeCheckpoint ==
    /\ [](/\ rougecb.assigned = {} => rougecb._best_rouge = NoMetric
          /\ rougecb.assigned # {} => rougecb._best_rouge = Greatest(rougecb.assigned)
          /\ rougecb.call.op \in {"maybe_checkpoint_now", "on_before_optimizer_step"}
                 => ~rougecb._checkpoint_now)
    /\ [][LET c == rougecb'.call
          IN /\ c.wrote =>
                    /\ rougecb.do_checkpoint
                    /\ rougecb'.assigned # {}
                    /\ \/ rougecb.checked = {}
                       \/ Greatest(rougecb'.assigned) > Greatest(rougecb.checked)
                    /\ c.ckpt_path = fmt_004f(Greatest(rougecb'.assigned))
                    /\ c.ckpt_path \in rougecb'.files
             /\ ~c.wrote => rougecb'.files = rougecb.files
             /\ \A f \in rougecb.files \ rougecb'.files :
                    /\ f = rougecb._prev_checkpoint
                    /\ c.wrote /\ c.ckpt_path # f /\ c.ckpt_path \in rougecb'.files]_vars

C28_Witness ==
    /\ rougecb.call.op = "maybe_checkpoint_now"
    /\ rougecb.call.wrote /\ rougecb.call.removed # NoPath
    /\ rougecb.files = {rougecb.call.ckpt_path}
    /\ Cardinality(rougecb.assigned) >= 3

-----------------------------------------------------------------------------
(* Specification of the naming of the next active iteration.               *)

InitNaming ==
    /\ \E s \in RepoIds : naming = [NoNaming EXCEPT !.hf_repo_id = s]
    /\ dedup = NoDedup /\ saver = NoSaver /\ valcb = NoValCallback
    /\ rougecb = NoRougeCallback /\ interval = NoInterval
    /\ ParkedEarlier
    /\ ParkedLibrary /\ ParkedRetry /\ ParkedExperts /\ ParkedEval /\ ParkedCreate

notNamingVars ==
    <<adapterVars, registryVars, task_id_container, routingVars,
      libraryVars, attempt, expertVars, evalVars, built,
      dedup, saver, valcb, rougecb, interval>>

nm_setup == setup_to_repo_id /\ UNCHANGED notNamingVars

NextNaming == nm_setup

SpecNaming == InitNaming /\ [][NextNaming]_vars

\* C29: the id increase_ai gives reads back, through find_ai, as the
\* active iteration after the one of the id it was given.
C29_IncreaseAdvances ==
    naming.done => find_ai(naming.to_repo_id) = find_ai(naming.hf_repo_id) + 1

-----------------------------------------------------------------------------
(* Specification of train_module's validation interval.                    *)

InitInterval ==
    /\ \E eval_every \in EvalEvery : \E steps \in AccumulationSteps :
           \E batches \in TrainBatches : \E total_steps \in TotalSteps :
               interval = [NoInterval EXCEPT !.eval_every = eval_every,
                                             !.gradient_accumulation_steps = steps,
                                             !.train_batches = batches,
                                             !.total_steps = total_steps]
    /\ dedup = NoDedup /\ saver = NoSaver /\ valcb = NoValCallback
    /\ rougecb = NoRougeCallback /\ naming = NoNaming
    /\ ParkedEarlier
    /\ ParkedLibrary /\ ParkedRetry /\ ParkedExperts /\ ParkedEval /\ ParkedCreate

notIntervalVars ==
    <<adapterVars, registryVars, task_id_container, routingVars,
      libraryVars, attempt, expertVars, evalVars, built,
      dedup, saver, valcb, rougecb, naming>>

iv_train_module == train_module /\ UNCHANGED notIntervalVars

NextInterval == iv_train_module

SpecInterval == InitInterval /\ [][NextInterval]_vars

\* C30: with eval_every -1 or None the interval handed to the Trainer is
\* None; otherwise it is at most the number of training batches and, when
\* total_steps is not -1, at most total_steps.
C30_IntervalClamped ==
    interval.done =>
        IF interval.eval_every.none \/ interval.eval_every.value = -1
        THEN interval.val_check_interval.none
        ELSE /\ ~interval.val_check_interval.none
             /\ interval.val_check_interval.value <= interval.train_batches
             /\ interval.total_steps # -1 =>
                    interval.val_check_interval.value <= interval.total_steps

====
